---- MODULE Spec2Model ----
(***************************************************************************)
(* Model of the registry HTTP engine of opencontainers-rs:                 *)
(*   src/src/distribution/mod.rs   Registry::new / attempt_request / get   *)
(*   src/src/distribution/auth.rs  BearerChallenge / Token::get /          *)
(*                                 do_challenge                            *)
(* The remote side (registry and token realms) is the environment: every   *)
(* answer it gives is a nondeterministic input of the step that receives   *)
(* it.  Each HTTP exchange of a call is recorded in `log`.                 *)
(***************************************************************************)
EXTENDS Integers, Sequences, FiniteSets, TLC

\* ---------------------------------------------------------------- bounds
\* Largest number of challenges one WWW-Authenticate header value carries.
MaxChallenges == 2

\* ------------------------------------------------------------ input sets
None == "none"

URLs == {"u1", "u2"}

\* The caller's optional extra headers (Option<&HeaderMap>).
HeaderArgs == {None, "h1"}

\* Statuses the remote side answers with.
Statuses == {200, 204, 401, 403, 500}

Realms == {"r1", "r2"}

TokenStrings == {"t1", "t2"}

\* reqwest::StatusCode::UNAUTHORIZED
UNAUTHORIZED == 401

\* reqwest::StatusCode::is_success: 200 <= status < 300
is_success_2xx_only_200(status) == status = 200

is_success(status) == status >= 200 /\ status < 300

\* ------------------------------------------- WWW-Authenticate header value
\* www_authenticate::RawChallenge under its scheme name: Token68(_) or
\* Fields(map); of the map only the realm is kept here.
RawChallenges ==
    [scheme : {"Bearer", "Basic"}, form : {"Token68"}, realm : {None}]
    \cup [scheme : {"Bearer", "Basic"}, form : {"Fields"}, realm : Realms \cup {None}]

RECURSIVE SeqsUpTo(_, _)
SeqsUpTo(S, n) ==
    IF n = 0 THEN {<<>>}
    ELSE LET shorter == SeqsUpTo(S, n - 1)
         IN  shorter \cup {Append(s, x) : s \in {t \in shorter : Len(t) = n - 1}, x \in S}

\* The header of a response: absent, present but not parseable, or a
\* parseable list of challenges in header order.
NoHeader == [present |-> FALSE, parses |-> FALSE, challenges |-> <<>>]

GarbageHeader == [present |-> TRUE, parses |-> FALSE, challenges |-> <<>>]

HeaderValues ==
    {NoHeader, GarbageHeader}
    \cup {[present |-> TRUE, parses |-> TRUE, challenges |-> cs] :
            cs \in SeqsUpTo(RawChallenges, MaxChallenges) \ {<<>>}}

\* ----------------------------------------------------------------- state
VARIABLES
    credential_cache,   \* Registry.credential_cache: url -> credential
    pc,                 \* position of the current Registry::get call
    url,                \* get's argument `url`
    headers,            \* get's argument `headers`
    log,                \* HTTP exchanges of the current call, in order
    response,           \* get's local `response` (the first non-2xx answer)
    challenges,         \* do_challenge's local `challenges`
    ci,                 \* position of do_challenge's iterator
    token_results,      \* what Token::get returned for each challenge so far
    auths,              \* do_challenge's `auths` collected so far
    credentials,        \* get's local `credentials`
    ri,                 \* position of get's `for credential in credentials`
    try_auth_calls,     \* number of try_auth/do_challenge invocations of the call
    result,             \* what get returned
    authenticated_url,  \* url of the previous get if a credentialed retry of it
                        \* was answered 2xx, None otherwise
    \* -- a function applied to an argument (the function specifications)
    arg,                \* the argument
    ret,                \* what the function returned
    \* -- the image handle (src/src/image/mod.rs)
    ipc,                \* position of the current Image operation
    image,              \* the Image: its name and stored manifest
    requests,           \* the Registry::get calls made so far, in order
    iresult,            \* what the Image operation returned
    \* -- the unpack engine (src/src/glue.rs)
    upc,                \* position of Unpack::unpack
    layer_i,            \* position of unpack's `for layer in ...`
    tar,                \* the archive get_layer returned for the current layer
    entry_i,            \* position of apply_layer's `for entry in ...`
    trace,              \* blob requests and sink callbacks so far, in order
    uresult             \* what unpack returned

\* The variables the registry engine does not touch.
side_vars == <<arg, ret, ipc, image, requests, iresult,
               upc, layer_i, tar, entry_i, trace, uresult>>

\* The variables of the registry engine.
registry_vars == <<credential_cache, pc, url, headers, log, response, challenges, ci,
                   token_results, auths, credentials, ri, try_auth_calls, result,
                   authenticated_url>>

vars == <<credential_cache, pc, url, headers, log, response, challenges, ci,
          token_results, auths, credentials, ri, try_auth_calls, result,
          authenticated_url, side_vars>>

\* --------------------------------------------------------------- results
NoResult == [kind |-> "None", arg |-> 0]

\* Ok(response): arg is the position in `log` of the exchange whose response
\* is handed to the caller.
OkResponse(n) == [kind |-> "Ok", arg |-> n]

ReqwestError == [kind |-> "ReqwestError", arg |-> 0]

InvalidAuthenticationChallenge == [kind |-> "InvalidAuthenticationChallenge", arg |-> 0]

CouldNotGetToken(status) == [kind |-> "CouldNotGetToken", arg |-> status]

CouldNotAuthenticate == [kind |-> "CouldNotAuthenticate", arg |-> 0]

\* ------------------------------------------------------- the remote side
\* What the remote side can do with a request to the resource URL: the
\* transport fails, or a response with a status and possibly a
\* WWW-Authenticate header arrives.
TransportFailure ==
    [failed |-> TRUE, status |-> 0, www_authenticate |-> NoHeader, body |-> None]

FirstAnswers ==
    {TransportFailure}
    \cup {[failed |-> FALSE, status |-> s, www_authenticate |-> NoHeader, body |-> None] :
            s \in Statuses \cap (200..299)}
    \cup {[failed |-> FALSE, status |-> s, www_authenticate |-> w, body |-> None] :
            s \in Statuses \ (200..299), w \in HeaderValues}

\* Answers to a credentialed retry; a 401 may again carry a Bearer challenge.
RetryChallengeHeader ==
    [present |-> TRUE, parses |-> TRUE,
     challenges |-> <<[scheme |-> "Bearer", form |-> "Fields", realm |-> "r1"]>>]

RetryAnswers ==
    {TransportFailure}
    \cup {[failed |-> FALSE, status |-> s, www_authenticate |-> NoHeader, body |-> None] :
            s \in Statuses}
    \cup {[failed |-> FALSE, status |-> UNAUTHORIZED,
           www_authenticate |-> RetryChallengeHeader, body |-> None]}

\* Answers of a token realm: transport failure, a non-2xx status, a 2xx whose
\* body is not a Token document, or a 2xx carrying a token.
RealmAnswers ==
    {TransportFailure}
    \cup {[failed |-> FALSE, status |-> 403, www_authenticate |-> NoHeader, body |-> None]}
    \cup {[failed |-> FALSE, status |-> 200, www_authenticate |-> NoHeader, body |-> b] :
            b \in TokenStrings \cup {"badjson"}}

\* ------------------------------------------------ Registry::attempt_request
\* The request attempt_request builds and sends, with the answer it got.
attempt_request_drop_headers(u, h, cred, answer) ==
    [to |-> "resource", url |-> u, headers |-> None, auth |-> cred,
     failed |-> answer.failed, status |-> answer.status,
     www_authenticate |-> answer.www_authenticate, body |-> answer.body]

attempt_request(u, h, cred, answer) ==
    [to |-> "resource", url |-> u, headers |-> h, auth |-> cred,
     failed |-> answer.failed, status |-> answer.status,
     www_authenticate |-> answer.www_authenticate, body |-> answer.body]

\* Its return value: Err(ReqwestError), Ok(Ok(response)) or Ok(Err(response)).
attempt_request_result(answer) ==
    IF answer.failed THEN "Err"
    ELSE IF is_success(answer.status) THEN "OkOk"
    ELSE "OkErr"

\* ---------------------------------------------------------- auth engine
\* BearerChallenge::from_raw: Token68 gives None, Fields gives a challenge.
from_raw(raw) ==
    IF raw.form = "Token68" THEN None ELSE [realm |-> raw.realm]

\* WwwAuthenticate::parse_header(..).get::<BearerChallenge>() as used by
\* do_challenge: an error when the value does not parse or holds no Bearer
\* challenge, otherwise the Bearer challenges that from_raw accepts, in order.
parse_challenges_no_bearer_is_empty(w) ==
    IF ~w.parses THEN [ok |-> FALSE, list |-> <<>>]
    ELSE LET bearer == SelectSeq(w.challenges, LAMBDA c : c.scheme = "Bearer")
             fields == SelectSeq(bearer, LAMBDA c : c.form # "Token68")
         IN  [ok |-> TRUE, list |-> [i \in 1..Len(fields) |-> from_raw(fields[i])]]

parse_challenges(w) ==
    IF ~w.parses THEN [ok |-> FALSE, list |-> <<>>]
    ELSE LET bearer == SelectSeq(w.challenges, LAMBDA c : c.scheme = "Bearer")
             fields == SelectSeq(bearer, LAMBDA c : c.form # "Token68")
         IN  IF bearer = <<>> THEN [ok |-> FALSE, list |-> <<>>]
             ELSE [ok |-> TRUE, list |-> [i \in 1..Len(fields) |-> from_raw(fields[i])]]

\* Token::get's return value for a challenge and the realm's answer.
TokenOk(t) == [ok |-> TRUE, token |-> t, err |-> NoResult]

TokenErr(e) == [ok |-> FALSE, token |-> None, err |-> e]

Token_get(chall, answer) ==
    IF chall.realm = None THEN TokenErr(InvalidAuthenticationChallenge)
    ELSE IF answer.failed THEN TokenErr(ReqwestError)
    ELSE IF ~is_success(answer.status) THEN TokenErr(CouldNotGetToken(answer.status))
    ELSE IF answer.body \notin TokenStrings THEN TokenErr(ReqwestError)
    ELSE TokenOk(answer.body)

\* The request Token::get sends to the realm (none when the realm is missing).
token_request(chall, answer) ==
    [to |-> "realm", url |-> chall.realm, headers |-> None, auth |-> None,
     failed |-> answer.failed, status |-> answer.status,
     www_authenticate |-> answer.www_authenticate, body |-> answer.body]

\* ------------------------------------------------------------------ Init
\* No call has returned yet.
NotCalled == [called |-> FALSE]

\* No Image has been returned.
NoImage == [returned |-> FALSE]

\* No function is being applied.
FnIdle ==
    /\ arg = None
    /\ ret = None

\* No image handle exists.
ImageIdle ==
    /\ ipc = "idle"
    /\ image = NoImage
    /\ requests = <<>>
    /\ iresult = NotCalled

\* No unpack is running.
UnpackIdle ==
    /\ upc = "idle"
    /\ layer_i = 1
    /\ tar = <<>>
    /\ entry_i = 1
    /\ trace = <<>>
    /\ uresult = NotCalled

\* Nothing but the registry engine is in use.
SideIdle == FnIdle /\ ImageIdle /\ UnpackIdle

\* Registry::new: an empty credential cache; no call in progress.
RegistryNew ==
    /\ credential_cache = [u \in {} |-> None]
    /\ pc = "idle"
    /\ url = None
    /\ headers = None
    /\ log = <<>>
    /\ response = TransportFailure
    /\ challenges = <<>>
    /\ ci = 1
    /\ token_results = <<>>
    /\ auths = <<>>
    /\ credentials = <<>>
    /\ ri = 1
    /\ try_auth_calls = 0
    /\ result = NoResult
    /\ authenticated_url = None

Init == RegistryNew /\ SideIdle

\* ----------------------------------------------------------- Registry::get
\* get up to the point where do_challenge starts iterating: the cache
\* lookup, the first attempt, the status checks and the header parse.
get_first_step_challenge_on_any_status(answer) ==
    IF attempt_request_result(answer) = "Err"
    THEN [next |-> "done", result |-> ReqwestError, calls |-> 0, list |-> <<>>]
    ELSE IF attempt_request_result(answer) = "OkOk"
    THEN [next |-> "done", result |-> OkResponse(1), calls |-> 0, list |-> <<>>]
    ELSE IF ~answer.www_authenticate.present
    THEN IF answer.status = UNAUTHORIZED
         THEN [next |-> "done", result |-> InvalidAuthenticationChallenge,
               calls |-> 0, list |-> <<>>]
         ELSE [next |-> "done", result |-> CouldNotGetToken(answer.status),
               calls |-> 0, list |-> <<>>]
    ELSE LET parsed == parse_challenges(answer.www_authenticate)
         IN  IF ~parsed.ok
             THEN [next |-> "done", result |-> InvalidAuthenticationChallenge,
                   calls |-> 1, list |-> <<>>]
             ELSE [next |-> "do_challenge", result |-> NoResult,
                   calls |-> 1, list |-> parsed.list]

get_first_step_status_before_header(answer) ==
    IF attempt_request_result(answer) = "Err"
    THEN [next |-> "done", result |-> ReqwestError, calls |-> 0, list |-> <<>>]
    ELSE IF attempt_request_result(answer) = "OkOk"
    THEN [next |-> "done", result |-> OkResponse(1), calls |-> 0, list |-> <<>>]
    ELSE IF answer.status # UNAUTHORIZED \/ ~answer.www_authenticate.present
    THEN [next |-> "done", result |-> CouldNotGetToken(answer.status), calls |-> 0, list |-> <<>>]
    ELSE LET parsed == parse_challenges(answer.www_authenticate)
         IN  IF ~parsed.ok
             THEN [next |-> "done", result |-> InvalidAuthenticationChallenge,
                   calls |-> 1, list |-> <<>>]
             ELSE [next |-> "do_challenge", result |-> NoResult,
                   calls |-> 1, list |-> parsed.list]

get_first_step(answer) ==
    IF attempt_request_result(answer) = "Err"
    THEN [next |-> "done", result |-> ReqwestError, calls |-> 0, list |-> <<>>]
    ELSE IF attempt_request_result(answer) = "OkOk"
    THEN [next |-> "done", result |-> OkResponse(1), calls |-> 0, list |-> <<>>]
    ELSE IF answer.status = UNAUTHORIZED /\ ~answer.www_authenticate.present
    THEN [next |-> "done", result |-> InvalidAuthenticationChallenge, calls |-> 0, list |-> <<>>]
    ELSE IF answer.status # UNAUTHORIZED
    THEN [next |-> "done", result |-> CouldNotGetToken(answer.status), calls |-> 0, list |-> <<>>]
    ELSE LET parsed == parse_challenges(answer.www_authenticate)
         IN  IF ~parsed.ok
             THEN [next |-> "done", result |-> InvalidAuthenticationChallenge,
                   calls |-> 1, list |-> <<>>]
             ELSE [next |-> "do_challenge", result |-> NoResult,
                   calls |-> 1, list |-> parsed.list]

Get ==
    /\ pc = "idle"
    /\ \E u \in URLs, h \in HeaderArgs, answer \in FirstAnswers :
         LET credential == IF u \in DOMAIN credential_cache
                           THEN credential_cache[u] ELSE None
             step == get_first_step(answer)
         IN  /\ log' = <<attempt_request(u, h, credential, answer)>>
             /\ pc' = step.next
             /\ result' = step.result
             /\ try_auth_calls' = step.calls
             /\ challenges' = step.list
             /\ url' = u
             /\ headers' = h
             /\ response' = answer
    /\ ci' = 1
    /\ token_results' = <<>>
    /\ auths' = <<>>
    /\ credentials' = <<>>
    /\ ri' = 1
    /\ UNCHANGED <<side_vars, authenticated_url, credential_cache>>

\* do_challenge: one element of `challenges.iter().map(Token::get)
\* .filter_map(Result::ok).map(Credential::Token)`.
collect(list, r) == IF r.ok THEN Append(list, r.token) ELSE list

TokenGet_fail_fast ==
    /\ pc = "do_challenge"
    /\ ci <= Len(challenges)
    /\ \E answer \in RealmAnswers :
         LET chall == challenges[ci]
             r == Token_get(chall, answer)
         IN  /\ chall.realm = None => answer = TransportFailure
             /\ log' = IF chall.realm = None THEN log
                       ELSE Append(log, token_request(chall, answer))
             /\ token_results' = Append(token_results, r)
             /\ auths' = collect(auths, r)
             /\ pc' = IF r.ok THEN pc ELSE "done"
             /\ result' = IF r.ok THEN result ELSE r.err
    /\ ci' = ci + 1
    /\ UNCHANGED <<side_vars, authenticated_url, credential_cache, url, headers, response, challenges,
                   credentials, ri, try_auth_calls>>

TokenGet ==
    /\ pc = "do_challenge"
    /\ ci <= Len(challenges)
    /\ \E answer \in RealmAnswers :
         LET chall == challenges[ci]
             r == Token_get(chall, answer)
         IN  /\ chall.realm = None => answer = TransportFailure
             /\ log' = IF chall.realm = None THEN log
                       ELSE Append(log, token_request(chall, answer))
             /\ token_results' = Append(token_results, r)
             /\ auths' = collect(auths, r)
    /\ ci' = ci + 1
    /\ UNCHANGED <<side_vars, authenticated_url, credential_cache, pc, url, headers, response, challenges,
                   credentials, ri, try_auth_calls, result>>

\* do_challenge returns Ok(auths); get binds it to `credentials`.
ChallengeReturn_empty_is_invalid ==
    /\ pc = "do_challenge"
    /\ ci > Len(challenges)
    /\ credentials' = auths
    /\ ri' = 1
    /\ pc' = IF auths = <<>> THEN "done" ELSE "retry"
    /\ result' = IF auths = <<>> THEN InvalidAuthenticationChallenge ELSE result
    /\ UNCHANGED <<side_vars, authenticated_url, credential_cache, url, headers, log, response, challenges, ci,
                   token_results, auths, try_auth_calls>>

ChallengeReturn ==
    /\ pc = "do_challenge"
    /\ ci > Len(challenges)
    /\ credentials' = auths
    /\ ri' = 1
    /\ pc' = "retry"
    /\ UNCHANGED <<side_vars, authenticated_url, credential_cache, url, headers, log, response, challenges, ci,
                   token_results, auths, try_auth_calls, result>>

\* One iteration of `for credential in credentials`.
retry_step_stop_on_non_401(answer, n) ==
    IF attempt_request_result(answer) = "Err"
    THEN [next |-> "done", result |-> ReqwestError]
    ELSE IF attempt_request_result(answer) = "OkOk"
    THEN [next |-> "done", result |-> OkResponse(n)]
    ELSE IF answer.status # UNAUTHORIZED
    THEN [next |-> "done", result |-> CouldNotGetToken(answer.status)]
    ELSE [next |-> "retry", result |-> NoResult]

retry_step_swallow_transport_error(answer, n) ==
    IF attempt_request_result(answer) = "OkOk"
    THEN [next |-> "done", result |-> OkResponse(n)]
    ELSE [next |-> "retry", result |-> NoResult]

retry_step(answer, n) ==
    IF attempt_request_result(answer) = "Err"
    THEN [next |-> "done", result |-> ReqwestError]
    ELSE IF attempt_request_result(answer) = "OkOk"
    THEN [next |-> "done", result |-> OkResponse(n)]
    ELSE [next |-> "retry", result |-> NoResult]

Retry_cache_credential ==
    /\ pc = "retry"
    /\ ri <= Len(credentials)
    /\ \E answer \in RetryAnswers :
         LET step == retry_step(answer, Len(log) + 1)
         IN  /\ log' = Append(log, attempt_request(url, headers, credentials[ri], answer))
             /\ pc' = step.next
             /\ result' = step.result
             /\ credential_cache' =
                  IF step.result.kind = "Ok"
                  THEN [u \in DOMAIN credential_cache \cup {url} |->
                          IF u = url THEN credentials[ri] ELSE credential_cache[u]]
                  ELSE credential_cache
    /\ ri' = ri + 1
    /\ UNCHANGED <<side_vars, authenticated_url, url, headers, response, challenges, ci,
                   token_results, auths, credentials, try_auth_calls>>

Retry_rechallenge ==
    /\ pc = "retry"
    /\ ri <= Len(credentials)
    /\ \E answer \in RetryAnswers :
         LET step == retry_step(answer, Len(log) + 1)
             again == /\ step.next = "retry"
                      /\ answer.status = UNAUTHORIZED
                      /\ parse_challenges(answer.www_authenticate).ok
         IN  /\ log' = Append(log, attempt_request(url, headers, credentials[ri], answer))
             /\ pc' = IF again THEN "do_challenge" ELSE step.next
             /\ result' = step.result
             /\ challenges' = IF again THEN parse_challenges(answer.www_authenticate).list
                               ELSE challenges
             /\ ci' = IF again THEN 1 ELSE ci
             /\ auths' = IF again THEN <<>> ELSE auths
             /\ token_results' = IF again THEN <<>> ELSE token_results
             /\ try_auth_calls' = IF again THEN try_auth_calls + 1 ELSE try_auth_calls
    /\ ri' = ri + 1
    /\ UNCHANGED <<side_vars, authenticated_url, credential_cache, url, headers, response, credentials>>

Retry_until_accepted ==
    /\ pc = "retry"
    /\ ri <= Len(credentials)
    /\ \E answer \in RetryAnswers :
         LET step == retry_step(answer, Len(log) + 1)
         IN  /\ log' = Append(log, attempt_request(url, headers, credentials[ri], answer))
             /\ pc' = step.next
             /\ result' = step.result
             /\ ri' = IF step.next = "retry" THEN ri ELSE ri + 1
    /\ UNCHANGED <<side_vars, authenticated_url, credential_cache, url, headers, response, challenges, ci,
                   token_results, auths, credentials, try_auth_calls>>

Retry ==
    /\ pc = "retry"
    /\ ri <= Len(credentials)
    /\ \E answer \in RetryAnswers :
         LET step == retry_step(answer, Len(log) + 1)
         IN  /\ log' = Append(log, attempt_request(url, headers, credentials[ri], answer))
             /\ pc' = step.next
             /\ result' = step.result
    /\ ri' = ri + 1
    /\ UNCHANGED <<side_vars, authenticated_url, credential_cache, url, headers, response, challenges, ci,
                   token_results, auths, credentials, try_auth_calls>>

\* The loop ran out of credentials: Err(CouldNotAuthenticate).
RetryExhausted ==
    /\ pc = "retry"
    /\ ri > Len(credentials)
    /\ pc' = "done"
    /\ result' = CouldNotAuthenticate
    /\ UNCHANGED <<side_vars, authenticated_url, credential_cache, url, headers, log, response, challenges, ci,
                   token_results, auths, credentials, ri, try_auth_calls>>

\* get has returned; its locals are dropped and the registry can be used again.
Return ==
    /\ pc = "done"
    /\ pc' = "idle"
    /\ url' = None
    /\ headers' = None
    /\ log' = <<>>
    /\ response' = TransportFailure
    /\ challenges' = <<>>
    /\ ci' = 1
    /\ token_results' = <<>>
    /\ auths' = <<>>
    /\ credentials' = <<>>
    /\ ri' = 1
    /\ try_auth_calls' = 0
    /\ result' = NoResult
    /\ authenticated_url' = IF result.kind = "Ok" /\ result.arg > 1 THEN url ELSE None
    /\ UNCHANGED <<side_vars, credential_cache>>

Next ==
    \/ Get
    \/ TokenGet
    \/ ChallengeReturn
    \/ Retry
    \/ RetryExhausted
    \/ Return

Spec == Init /\ [][Next]_vars

\* get is straight-line code around two loops: once called, each of its
\* steps is taken as soon as the answer it waits for has arrived, and every
\* request is answered or fails.
SpecLive ==
    /\ Init /\ [][Next]_vars
    /\ WF_vars(TokenGet) /\ WF_vars(ChallengeReturn)
    /\ WF_vars(Retry) /\ WF_vars(RetryExhausted)

\* ------------------------------------------------------------ type check
\* ============================================== the token request in full
\* BearerChallenge::from_raw and the request Token::get builds, with the
\* service and scope fields the registry specification above leaves out.
\* A scope string is a sequence of characters.
MaxScopeLen == 3

ScopeChars == {"a", "b", " ", "\t"}

ScopeStrings == SeqsUpTo(ScopeChars, MaxScopeLen)

Services == {"s1"}

\* RawChallenge::Fields(map) with the three keys from_raw looks at.
RawFields ==
    [form : {"Fields"}, realm : Realms \cup {None}, service : Services \cup {None},
     has_scope : {FALSE}, scope : {<<>>}]
    \cup [form : {"Fields"}, realm : Realms \cup {None}, service : Services \cup {None},
          has_scope : {TRUE}, scope : ScopeStrings]

\* str::split(' '): the pieces between single space characters; a string
\* without a space, the empty string included, is one piece.
RECURSIVE split_space_skip_blank(_)
split_space_skip_blank(str) ==
    LET blank == {i \in 1..Len(str) : str[i] \in {" ", "\t"}}
    IN  IF blank = {} THEN (IF str = <<>> THEN <<>> ELSE <<str>>)
        ELSE LET i == CHOOSE k \in blank : \A m \in blank : k <= m
                 rest == split_space_skip_blank(SubSeq(str, i + 1, Len(str)))
             IN  IF i = 1 THEN rest ELSE <<SubSeq(str, 1, i - 1)>> \o rest

RECURSIVE split_space(_)
split_space(str) ==
    LET spaces == {i \in 1..Len(str) : str[i] = " "}
    IN  IF spaces = {} THEN <<str>>
        ELSE LET i == CHOOSE k \in spaces : \A m \in spaces : k <= m
             IN  <<SubSeq(str, 1, i - 1)>> \o split_space(SubSeq(str, i + 1, Len(str)))

\* BearerChallenge::from_raw on a Fields map: realm, service, and the scope
\* string split into `scopes`.
BearerChallenge_from_raw(raw) ==
    [realm |-> raw.realm, service |-> raw.service,
     has_scopes |-> raw.has_scope,
     scopes |-> IF raw.has_scope THEN split_space(raw.scope) ELSE <<>>]

\* Token::get up to request.send(): no request without a realm, otherwise a
\* GET to the realm whose query holds the scopes and then the service.
NoRequest == [sent |-> FALSE]

Token_get_request(chall) ==
    IF chall.realm = None THEN NoRequest
    ELSE [sent |-> TRUE, method |-> "GET", url |-> chall.realm, auth |-> None,
          query |-> [i \in 1..Len(chall.scopes) |-> <<"scope", chall.scopes[i]>>]
                    \o (IF chall.service # None THEN <<<<"service", chall.service>>>>
                        ELSE <<>>)]

InitToken ==
    /\ RegistryNew /\ ImageIdle /\ UnpackIdle
    /\ arg \in RawFields
    /\ ret = NotCalled

\* do_challenge hands the challenge from_raw made to Token::get.
TokenRequest ==
    /\ ~ret.called
    /\ ret' = [called |-> TRUE, chall |-> BearerChallenge_from_raw(arg),
               request |-> Token_get_request(BearerChallenge_from_raw(arg))]
    /\ UNCHANGED <<registry_vars, arg, ipc, image, requests, iresult,
                   upc, layer_i, tar, entry_i, trace, uresult>>

NextToken == TokenRequest

SpecToken == InitToken /\ [][NextToken]_vars

\* ======================================================= manifest probing
\* probe_manifest_v2_schema and ManifestV2::from_str as functions of a
\* document.  A media type is a sequence of chunks: the four known prefixes,
\* the character '+', and the word "json".
MaxMediaLen == 3

MaxSchemaVersion == 3

OCI_MANIFEST == "application/vnd.oci.distribution.manifest.v2"

OCI_LIST == "application/vnd.oci.distribution.manifest.list.v2"

DOCKER_MANIFEST == "application/vnd.docker.distribution.manifest.v2"

DOCKER_LIST == "application/vnd.docker.distribution.manifest.list.v2"

MediaChunks == {OCI_MANIFEST, OCI_LIST, DOCKER_MANIFEST, DOCKER_LIST, "+", "json"}

\* The "mediaType" member: absent, not a JSON string, or a string.
MediaTypes ==
    [kind : {"absent", "not_string"}, str : {<<>>}]
    \cup [kind : {"string"}, str : SeqsUpTo(MediaChunks, MaxMediaLen)]

\* The "schemaVersion" member: absent, not an unsigned integer, or a u64.
SchemaVersions ==
    [kind : {"absent", "not_u64"}, n : {0}]
    \cup [kind : {"u64"}, n : 0..MaxSchemaVersion]

\* A document: text that is not JSON, or a JSON object with its
\* schemaVersion, its mediaType, and whether its other members are those
\* ManifestV2_1 (name, tag, architecture, fsLayers), ManifestV2_2 (config,
\* layers) and ManifestListV2_2 (manifests) require.
NotJson ==
    [json |-> FALSE, schemaVersion |-> [kind |-> "absent", n |-> 0],
     mediaType |-> [kind |-> "absent", str |-> <<>>],
     v2_1_members |-> FALSE, v2_2_members |-> FALSE, list_members |-> FALSE]

Documents ==
    {NotJson}
    \cup [json : {TRUE}, schemaVersion : SchemaVersions, mediaType : MediaTypes,
          v2_1_members : BOOLEAN, v2_2_members : BOOLEAN, list_members : BOOLEAN]

JsonError == [ok |-> FALSE, err |-> "JsonError"]

InvalidSchemaVersion(n) == [ok |-> FALSE, err |-> "InvalidSchemaVersion", n |-> n]

InvalidMediaType(str) == [ok |-> FALSE, err |-> "InvalidMediaType", media_type |-> str]

ProbeOk(schema) == [ok |-> TRUE, schema |-> schema]

\* media_type.split('+').next(): what precedes the first '+', the whole
\* string when it has none.
split_plus_next(str) ==
    LET plus == {i \in 1..Len(str) : str[i] = "+"}
    IN  IF plus = {} THEN str
        ELSE SubSeq(str, 1, (CHOOSE k \in plus : \A m \in plus : k <= m) - 1)

probe_manifest_v2_schema_media_type_first(data) ==
    IF ~data.json \/ data.schemaVersion.kind # "u64" \/ data.mediaType.kind # "string"
    THEN JsonError
    ELSE IF split_plus_next(data.mediaType.str) \in {<<OCI_MANIFEST>>, <<DOCKER_MANIFEST>>}
              /\ data.schemaVersion.n = 2
         THEN ProbeOk("Schema2")
    ELSE IF split_plus_next(data.mediaType.str) \in {<<OCI_LIST>>, <<DOCKER_LIST>>}
              /\ data.schemaVersion.n = 2
         THEN ProbeOk("Schema2List")
    ELSE IF data.schemaVersion.n = 1 THEN ProbeOk("Schema1")
    ELSE IF data.schemaVersion.n = 2 THEN InvalidMediaType(data.mediaType.str)
    ELSE InvalidSchemaVersion(data.schemaVersion.n)

probe_manifest_v2_schema_error_carries_prefix(data) ==
    IF ~data.json \/ data.schemaVersion.kind # "u64" THEN JsonError
    ELSE IF data.schemaVersion.n = 1 THEN ProbeOk("Schema1")
    ELSE IF data.schemaVersion.n # 2 THEN InvalidSchemaVersion(data.schemaVersion.n)
    ELSE IF data.mediaType.kind # "string" THEN JsonError
    ELSE LET media_type_split == split_plus_next(data.mediaType.str)
         IN  IF media_type_split \in {<<OCI_MANIFEST>>, <<DOCKER_MANIFEST>>}
             THEN ProbeOk("Schema2")
             ELSE IF media_type_split \in {<<OCI_LIST>>, <<DOCKER_LIST>>}
             THEN ProbeOk("Schema2List")
             ELSE InvalidMediaType(media_type_split)

probe_manifest_v2_schema(data) ==
    IF ~data.json \/ data.schemaVersion.kind # "u64" THEN JsonError
    ELSE IF data.schemaVersion.n = 1 THEN ProbeOk("Schema1")
    ELSE IF data.schemaVersion.n # 2 THEN InvalidSchemaVersion(data.schemaVersion.n)
    ELSE IF data.mediaType.kind # "string" THEN JsonError
    ELSE LET media_type_split == split_plus_next(data.mediaType.str)
         IN  IF media_type_split \in {<<OCI_MANIFEST>>, <<DOCKER_MANIFEST>>}
             THEN ProbeOk("Schema2")
             ELSE IF media_type_split \in {<<OCI_LIST>>, <<DOCKER_LIST>>}
             THEN ProbeOk("Schema2List")
             ELSE InvalidMediaType(data.mediaType.str)

\* serde_json::from_str into the struct of one variant.
deserializes(data, schema) ==
    /\ data.json
    /\ data.schemaVersion.kind = "u64"
    /\ CASE schema = "Schema1" -> data.v2_1_members
         [] schema = "Schema2" -> data.mediaType.kind = "string" /\ data.v2_2_members
         [] schema = "Schema2List" -> data.mediaType.kind = "string" /\ data.list_members

ManifestOk(variant) == [ok |-> TRUE, variant |-> variant]

ManifestV2_from_str(s) ==
    LET probed == probe_manifest_v2_schema(s)
    IN  IF ~probed.ok THEN probed
        ELSE IF deserializes(s, probed.schema) THEN ManifestOk(probed.schema)
        ELSE JsonError

InitProbe ==
    /\ RegistryNew /\ ImageIdle /\ UnpackIdle
    /\ arg \in Documents
    /\ ret = NotCalled

Probe ==
    /\ ~ret.called
    /\ ret' = [called |-> TRUE, fn |-> "probe_manifest_v2_schema",
               value |-> probe_manifest_v2_schema(arg)]
    /\ UNCHANGED <<registry_vars, arg, ipc, image, requests, iresult,
                   upc, layer_i, tar, entry_i, trace, uresult>>

FromStr ==
    /\ ~ret.called
    /\ ret' = [called |-> TRUE, fn |-> "from_str", value |-> ManifestV2_from_str(arg)]
    /\ UNCHANGED <<registry_vars, arg, ipc, image, requests, iresult,
                   upc, layer_i, tar, entry_i, trace, uresult>>

NextProbe == Probe \/ FromStr

SpecProbe == InitProbe /\ [][NextProbe]_vars

\* =========================================================== image handle
\* Image::new, config and get_layer.  Registry::get, modelled in full above,
\* is one call here: `requests` lists the calls with the answer each got.
MaxLayers == 2

MaxEntries == 2

MaxRequests == 3

Digests == {"sha256:a", "sha256:b"}

GZIP_LAYER == "application/vnd.docker.image.rootfs.diff.tar.gzip"

OCI_GZIP_LAYER == "application/vnd.oci.image.layer.v1.tar+gzip"

PLAIN_LAYER == "application/vnd.oci.image.layer.v1.tar"

LayerMediaTypes == {GZIP_LAYER, OCI_GZIP_LAYER, PLAIN_LAYER}

\* The manifests a document can deserialize to.
Schema1Manifests ==
    [schema : {"Schema1"}, layers : SeqsUpTo([digest : Digests], MaxLayers)]

Schema2Manifests ==
    [schema : {"Schema2"}, config : [digest : {"sha256:c"}],
     layers : SeqsUpTo([digest : Digests, media_type : LayerMediaTypes], MaxLayers)]

\* A list entry: its digest and whether its platform is the host's.
ListEntries == [digest : Digests, platform_matches : BOOLEAN]

ListManifests ==
    [schema : {"Schema2List"}, manifests : SeqsUpTo(ListEntries, MaxEntries)]

ManifestsOf(variant) ==
    CASE variant = "Schema1" -> Schema1Manifests
      [] variant = "Schema2" -> Schema2Manifests
      [] variant = "Schema2List" -> ListManifests

\* Documents a registry answers with: no JSON, a schema 1 manifest, a
\* schema 2 manifest, a manifest list, a list media type on a document that
\* has no `manifests`, and an unknown schema version.
Body(n, str, v1, v2, list) ==
    [json |-> TRUE, schemaVersion |-> [kind |-> "u64", n |-> n],
     mediaType |-> [kind |-> IF str = <<>> THEN "absent" ELSE "string", str |-> str],
     v2_1_members |-> v1, v2_2_members |-> v2, list_members |-> list]

BodyDocs ==
    {NotJson,
     Body(1, <<>>, TRUE, FALSE, FALSE),
     Body(2, <<DOCKER_MANIFEST, "+", "json">>, FALSE, TRUE, FALSE),
     Body(2, <<DOCKER_LIST, "+", "json">>, FALSE, FALSE, TRUE),
     Body(2, <<OCI_LIST>>, FALSE, TRUE, FALSE),
     Body(3, <<>>, TRUE, TRUE, TRUE)}

\* What Registry::get returns to its caller: one of its errors or a response.
RegistryErrors == {"ReqwestError", "CouldNotAuthenticate"}

\* Answers to a GET whose body is parsed as JSON: an error, a response whose
\* text cannot be read, or a response with a document.
FailedAnswers ==
    [err : RegistryErrors] \cup {[err |-> None, text_ok |-> FALSE]}

\* Answers to the config blob GET: the body parses as an ImageV1 or not.
ConfigAnswers ==
    [err : RegistryErrors]
    \cup {[err |-> None, text_ok |-> FALSE]}
    \cup [err : {None}, text_ok : {TRUE}, image_v1 : BOOLEAN]

\* Answers to a layer blob GET.
LayerAnswers == [err : RegistryErrors] \cup {[err |-> None]}

ImageErr(e) == [ok |-> FALSE, err |-> e]

ManifestError(cause) == [ok |-> FALSE, err |-> "ManifestError", cause |-> cause]

UnsupportedManifestSchema(schema) ==
    [ok |-> FALSE, err |-> "UnsupportedManifestSchema", schema |-> schema]

Returned(op, before, value) ==
    [called |-> TRUE, op |-> op, before |-> before, value |-> value]

ManifestRequest(answer) ==
    [kind |-> "manifest", target |-> "reference", accept |-> TRUE, answer |-> answer]

\* Image::get_blob: a GET of {url}/v2/{name}/blobs/{digest} without headers.
get_blob(digest, answer) ==
    [kind |-> "blob", target |-> digest, accept |-> FALSE, answer |-> answer]

Selectors == {"ImagePlatformSelector", "TestImageSelector"}

\* select_manifest of the two selectors: the index of the first entry whose
\* platform matches, or of the first entry; 0 when there is none.
select_manifest_fall_back_to_first(IS, manifest_list) ==
    LET matching == {i \in 1..Len(manifest_list.manifests) :
                          IS = "ImagePlatformSelector"
                              => manifest_list.manifests[i].platform_matches}
        candidates == IF matching = {} THEN 1..Len(manifest_list.manifests) ELSE matching
    IN  IF candidates = {} THEN 0
        ELSE CHOOSE i \in candidates : \A j \in candidates : i <= j

select_manifest_last_match(IS, manifest_list) ==
    LET candidates == {i \in 1..Len(manifest_list.manifests) :
                          IS = "ImagePlatformSelector"
                              => manifest_list.manifests[i].platform_matches}
    IN  IF candidates = {} THEN 0
        ELSE CHOOSE i \in candidates : \A j \in candidates : j <= i

select_manifest(IS, manifest_list) ==
    LET candidates == {i \in 1..Len(manifest_list.manifests) :
                          IS = "ImagePlatformSelector"
                              => manifest_list.manifests[i].platform_matches}
    IN  IF candidates = {} THEN 0
        ELSE CHOOSE i \in candidates : \A j \in candidates : i <= j

\* Manifest::layers and Layer::digest: the manifest's layers in its order.
layers(manifest) == manifest.layers

\* Layer::media_type: none for a schema 1 layer, which has only a blobSum.
media_type(layer) ==
    IF "media_type" \in DOMAIN layer THEN layer.media_type ELSE None

\* LayerMediaType::is_gzipped.
is_gzipped(type) == type \in {GZIP_LAYER, OCI_GZIP_LAYER}

\* A document that deserializes to no manifest.
NoMembers == [schema |-> None]

\* What the manifest GET of Image::new can be answered with.
ManifestMembers(d) ==
    IF ManifestV2_from_str(d).ok THEN ManifestsOf(ManifestV2_from_str(d).variant)
    ELSE {NoMembers}

\* `members` is what the document deserializes to where it does.
ManifestAnswers ==
    FailedAnswers
    \cup UNION {[err : {None}, text_ok : {TRUE}, doc : {d}, members : ManifestMembers(d)] :
                   d \in BodyDocs}

\* What the GET of a list entry can be answered with.
EntryMembers(d) == IF deserializes(d, "Schema2") THEN Schema2Manifests ELSE {NoMembers}

EntryAnswers ==
    FailedAnswers
    \cup UNION {[err : {None}, text_ok : {TRUE}, doc : {d}, members : EntryMembers(d)] :
                   d \in BodyDocs}

image_frame == <<registry_vars, arg, ret, upc, layer_i, tar, entry_i, trace, uresult>>

InitImage ==
    /\ RegistryNew /\ UnpackIdle /\ ImageIdle
    /\ arg \in [IS : Selectors]
    /\ ret = NotCalled

\* Image::new returns Err(value): the image under construction is dropped.
ImageFail(value) ==
    /\ ipc' = "failed"
    /\ image' = NoImage
    /\ iresult' = Returned("new", 0, value)

ImageOk(manifest) ==
    /\ ipc' = "ready"
    /\ image' = [returned |-> TRUE, manifest |-> manifest]
    /\ iresult' = Returned("new", 0, [ok |-> TRUE])

\* Image::new up to the match on the parsed manifest.
ImageNew_keep_list ==
    /\ ipc = "idle"
    /\ \E answer \in ManifestAnswers :
          /\ requests' = <<ManifestRequest(answer)>>
          /\ IF answer.err # None THEN ImageFail(ImageErr(answer.err))
             ELSE IF ~answer.text_ok THEN ImageFail(ImageErr("ReqwestError"))
             ELSE IF ~ManifestV2_from_str(answer.doc).ok
                  THEN ImageFail(ManifestError(ManifestV2_from_str(answer.doc)))
             ELSE ImageOk(answer.members)
    /\ UNCHANGED image_frame

ImageNew ==
    /\ ipc = "idle"
    /\ \E answer \in ManifestAnswers :
          /\ requests' = <<ManifestRequest(answer)>>
          /\ IF answer.err # None THEN ImageFail(ImageErr(answer.err))
             ELSE IF ~answer.text_ok THEN ImageFail(ImageErr("ReqwestError"))
             ELSE IF ~ManifestV2_from_str(answer.doc).ok
                  THEN ImageFail(ManifestError(ManifestV2_from_str(answer.doc)))
             ELSE IF answer.members.schema = "Schema2List"
                  THEN /\ ipc' = "get_current_platform_manifest"
                       /\ image' = [returned |-> FALSE, manifest |-> answer.members]
                       /\ UNCHANGED iresult
             ELSE ImageOk(answer.members)
    /\ UNCHANGED image_frame

\* ManifestListV2_2::get_current_platform_manifest, and Image::new's use of
\* its result.
get_current_platform_manifest ==
    /\ ipc = "get_current_platform_manifest"
    /\ LET i == select_manifest(arg.IS, image.manifest)
       IN  IF i = 0
           THEN /\ ImageFail(ImageErr("NoMatchingPlatform"))
                /\ UNCHANGED requests
           ELSE \E answer \in EntryAnswers :
                   /\ requests' = Append(requests,
                                         get_blob(image.manifest.manifests[i].digest, answer))
                   /\ IF answer.err # None THEN ImageFail(ImageErr(answer.err))
                      ELSE IF ~answer.text_ok THEN ImageFail(ImageErr("ReqwestError"))
                      ELSE IF ~deserializes(answer.doc, "Schema2")
                           THEN ImageFail(ManifestError(JsonError))
                      ELSE ImageOk(answer.members)
    /\ UNCHANGED image_frame

\* Image::config.
config_fetch_any_schema ==
    /\ ipc = "ready"
    /\ Len(requests) < MaxRequests
    /\ \E answer \in ConfigAnswers :
          /\ requests' = Append(requests,
                                get_blob(IF image.manifest.schema = "Schema2"
                                         THEN image.manifest.config.digest
                                         ELSE image.manifest.schema, answer))
          /\ iresult' = Returned("config", Len(requests),
                           IF image.manifest.schema # "Schema2"
                               THEN UnsupportedManifestSchema(image.manifest.schema)
                           ELSE IF answer.err # None THEN ImageErr(answer.err)
                           ELSE IF ~answer.text_ok THEN ImageErr("ReqwestError")
                           ELSE IF ~answer.image_v1 THEN ImageErr("ImageSpecError")
                           ELSE [ok |-> TRUE])
    /\ UNCHANGED <<image_frame, ipc, image>>

config ==
    /\ ipc = "ready"
    /\ Len(requests) < MaxRequests
    /\ IF image.manifest.schema # "Schema2"
       THEN /\ iresult' = Returned("config", Len(requests),
                                   UnsupportedManifestSchema(image.manifest.schema))
            /\ UNCHANGED requests
       ELSE \E answer \in ConfigAnswers :
               /\ requests' = Append(requests, get_blob(image.manifest.config.digest, answer))
               /\ iresult' = Returned("config", Len(requests),
                                IF answer.err # None THEN ImageErr(answer.err)
                                ELSE IF ~answer.text_ok THEN ImageErr("ReqwestError")
                                ELSE IF ~answer.image_v1 THEN ImageErr("ImageSpecError")
                                ELSE [ok |-> TRUE])
    /\ UNCHANGED <<image_frame, ipc, image>>

\* The reader Image::get_layer puts under the tar archive.
layer_reader_absent_is_plain(layer) ==
    IF media_type(layer) # None /\ is_gzipped(media_type(layer)) THEN "GzDecoder"
    ELSE "Response"

layer_reader(layer) ==
    IF media_type(layer) # None /\ ~is_gzipped(media_type(layer)) THEN "Response"
    ELSE "GzDecoder"

\* Image::get_layer on one of the manifest's layers.
get_layer ==
    /\ ipc = "ready"
    /\ Len(requests) < MaxRequests
    /\ \E l \in 1..Len(layers(image.manifest)), answer \in LayerAnswers :
          LET layer == layers(image.manifest)[l]
          IN  /\ requests' = Append(requests, get_blob(layer.digest, answer))
              /\ iresult' = Returned("get_layer", Len(requests),
                               IF answer.err # None THEN ImageErr(answer.err)
                               ELSE [ok |-> TRUE, layer |-> l, reader |-> layer_reader(layer)])
    /\ UNCHANGED <<image_frame, ipc, image>>

NextImage == ImageNew \/ get_current_platform_manifest \/ config \/ get_layer

SpecImage == InitImage /\ [][NextImage]_vars

\* ================================================================= unpack
\* Unpack::unpack with its default apply_layer and apply_change, driving a
\* sink whose callbacks succeed or fail.  `trace` lists what unpack did to
\* the image and to the sink, in order.
MaxTarEntries == 2

\* A path is a sequence of components, a component a sequence of chunks.
WH == ".wh."

OPAQUE == <<WH, WH, ".opq">>

TarPaths ==
    {<<<<"a">>, <<"b">>>>, <<<<"a">>, <<WH, "b">>>>, <<<<"a">>, OPAQUE>>}

\* What the tar reader yields for an entry: an I/O error, an entry whose
\* path cannot be read, or an entry with a path.
TarEntries ==
    {[readable |-> FALSE], [readable |-> TRUE, path_ok |-> FALSE]}
    \cup [readable : {TRUE}, path_ok : {TRUE}, path : TarPaths]

\* A tar stream: whether entries() succeeds, and the entries.
Tars ==
    {[entries_ok |-> FALSE, entries |-> <<>>]}
    \cup [entries_ok : {TRUE}, entries : SeqsUpTo(TarEntries, MaxTarEntries)]

\* Path::file_name is the last component unless the path is empty or ends
\* in `..`.
\* Path::parent.
parent(path) == SubSeq(path, 1, Len(path) - 1)

\* Path::file_name is Some: the path is not empty and does not end in `..`.
has_file_name(path) == path # <<>> /\ path[Len(path)] # <<"..">>

NonePath == [some |-> FALSE]

SomePath(path) == [some |-> TRUE, value |-> path]

\* PathBuf::set_file_name: pop the file name, push the new one.  An empty
\* final component stands for the separator that pushing "" leaves behind.
set_file_name(path, name) == parent(path) \o <<name>>

\* get_whiteout_path_unix.
get_whiteout_path_strip_anywhere(path) ==
    IF ~has_file_name(path) THEN NonePath
    ELSE IF \A k \in 1..Len(path[Len(path)]) : path[Len(path)][k] # WH THEN NonePath
    ELSE SomePath(set_file_name(path,
                      SelectSeq(path[Len(path)], LAMBDA chunk : chunk # WH)))

get_whiteout_path(path) ==
    IF ~has_file_name(path) THEN NonePath
    ELSE IF Head(path[Len(path)]) # WH THEN NonePath
    ELSE SomePath(set_file_name(path, Tail(path[Len(path)])))

\* apply_change: the sink callback an entry's path is dispatched to.
apply_change_whiteout_test_first(path) ==
    IF has_file_name(path) /\ get_whiteout_path(path).some
        THEN [op |-> "whiteout_file", path |-> get_whiteout_path(path).value]
    ELSE IF has_file_name(path) /\ path[Len(path)] = OPAQUE
        THEN [op |-> "whiteout_folder", path |-> parent(path)]
    ELSE [op |-> "add", path |-> path]

apply_change(path) ==
    IF has_file_name(path) /\ path[Len(path)] = OPAQUE
        THEN [op |-> "whiteout_folder", path |-> parent(path)]
    ELSE IF has_file_name(path) /\ get_whiteout_path(path).some
        THEN [op |-> "whiteout_file", path |-> get_whiteout_path(path).value]
    ELSE [op |-> "add", path |-> path]

\* The images unpack is run on: Image::new got a Schema 2 manifest.
UnpackLayers ==
    {[digest |-> "sha256:a", media_type |-> GZIP_LAYER],
     [digest |-> "sha256:b", media_type |-> PLAIN_LAYER]}

UnpackManifests ==
    [schema : {"Schema2"}, config : [digest : {"sha256:c"}],
     layers : SeqsUpTo(UnpackLayers, MaxLayers)]

InitUnpack ==
    /\ RegistryNew /\ UnpackIdle
    /\ arg \in [IS : {"TestImageSelector"}]
    /\ ret = NotCalled
    /\ ipc = "ready"
    /\ \E m \in UnpackManifests :
          /\ image = [returned |-> TRUE, manifest |-> m]
          /\ requests = <<ManifestRequest(
                 [err |-> None, text_ok |-> TRUE,
                  doc |-> Body(2, <<DOCKER_MANIFEST, "+", "json">>, FALSE, TRUE, FALSE),
                  members |-> m])>>
    /\ iresult = Returned("new", 0, [ok |-> TRUE])

unpack_frame == <<registry_vars, arg, ret, ipc, image, iresult>>

\* The order of unpack's steps: for each layer get_layer, then apply_layer's
\* pre_apply, entries(), the entries, post_apply.
StepAfter_pre_apply_first(step) ==
    CASE step = "next_layer" -> "pre_apply"
      [] step = "pre_apply" -> "get_layer"
      [] step = "get_layer" -> "entries"
      [] step = "entries" -> "entry"
      [] step = "entry" -> "post_apply"
      [] step = "post_apply" -> "next_layer"

StepAfter_post_apply_before_entries(step) ==
    CASE step = "next_layer" -> "get_layer"
      [] step = "get_layer" -> "pre_apply"
      [] step = "pre_apply" -> "post_apply"
      [] step = "post_apply" -> "entries"
      [] step = "entries" -> "entry"
      [] step = "entry" -> "next_layer"

StepAfter(step) ==
    CASE step = "next_layer" -> "get_layer"
      [] step = "get_layer" -> "pre_apply"
      [] step = "pre_apply" -> "entries"
      [] step = "entries" -> "entry"
      [] step = "entry" -> "post_apply"
      [] step = "post_apply" -> "next_layer"

\* Err(value) leaves unpack at once.
UnpackFail_then_post_apply(value) ==
    /\ upc' = "post_apply"
    /\ uresult' = [called |-> TRUE, value |-> value]
    /\ UNCHANGED <<layer_i, entry_i>>

UnpackFail(value) ==
    /\ upc' = "done"
    /\ uresult' = [called |-> TRUE, value |-> value]
    /\ UNCHANGED <<layer_i, entry_i>>

UnpackErr(e) == [ok |-> FALSE, err |-> e]

\* The step `step` succeeded: go on within the layer, or to the next
\* layer, or return Ok(()) after the last one.
Advance(step) ==
    IF StepAfter(step) # "next_layer"
    THEN /\ upc' = StepAfter(step)
         /\ UNCHANGED <<layer_i, entry_i, uresult>>
    ELSE /\ layer_i' = layer_i + 1
         /\ entry_i' = 1
         /\ IF layer_i + 1 > Len(layers(image.manifest))
            THEN /\ upc' = "done"
                 /\ uresult' = [called |-> TRUE, value |-> [ok |-> TRUE]]
            ELSE /\ upc' = StepAfter("next_layer")
                 /\ UNCHANGED uresult

\* unpack is called: image.manifest().layers().
Unpack ==
    /\ upc = "idle"
    /\ IF layers(image.manifest) = <<>>
       THEN /\ upc' = "done"
            /\ uresult' = [called |-> TRUE, value |-> [ok |-> TRUE]]
       ELSE /\ upc' = StepAfter("next_layer")
            /\ UNCHANGED uresult
    /\ UNCHANGED <<unpack_frame, requests, layer_i, tar, entry_i, trace>>

\* image.get_layer(layer).
UnpackGetLayer ==
    /\ upc = "get_layer"
    /\ \E answer \in LayerAnswers :
          LET layer == layers(image.manifest)[layer_i]
          IN  /\ requests' = Append(requests, get_blob(layer.digest, answer))
              /\ trace' = Append(trace, [op |-> "get_layer", layer |-> layer_i,
                                         digest |-> layer.digest,
                                         ok |-> answer.err = None])
              /\ IF answer.err # None
                 THEN UnpackFail(UnpackErr("RegistryError")) /\ UNCHANGED tar
                 ELSE Advance("get_layer") /\ tar' \in Tars
    /\ UNCHANGED unpack_frame

\* self.pre_apply()?
PreApply ==
    /\ upc = "pre_apply"
    /\ \E ok \in BOOLEAN :
          /\ trace' = Append(trace, [op |-> "pre_apply", layer |-> layer_i, ok |-> ok])
          /\ IF ok THEN Advance("pre_apply") ELSE UnpackFail(UnpackErr("Sink"))
    /\ UNCHANGED <<unpack_frame, requests, tar>>

\* layer.entries().map_err(GetEntries)?
Entries ==
    /\ upc = "entries"
    /\ IF tar.entries_ok THEN Advance("entries") ELSE UnpackFail(UnpackErr("GetEntries"))
    /\ UNCHANGED <<unpack_frame, requests, tar, trace>>

\* One turn of the loop over the entries: the loop ends, or the next entry
\* is read and handed to apply_change.
Entry ==
    /\ upc = "entry"
    /\ IF entry_i > Len(tar.entries)
       THEN Advance("entry") /\ UNCHANGED trace
       ELSE LET entry == tar.entries[entry_i]
            IN  IF ~entry.readable
                THEN UnpackFail(UnpackErr("GetEntry")) /\ UNCHANGED trace
                ELSE IF ~entry.path_ok
                THEN UnpackFail(UnpackErr("GetEntryPath")) /\ UNCHANGED trace
                ELSE \E ok \in BOOLEAN :
                        /\ trace' = Append(trace,
                               [op |-> apply_change(entry.path).op, layer |-> layer_i,
                                entry |-> entry_i, path |-> apply_change(entry.path).path,
                                ok |-> ok])
                        /\ IF ok
                           THEN /\ entry_i' = entry_i + 1
                                /\ UNCHANGED <<upc, layer_i, uresult>>
                           ELSE UnpackFail(UnpackErr("Sink"))
    /\ UNCHANGED <<unpack_frame, requests, tar>>

\* self.post_apply()
PostApply ==
    /\ upc = "post_apply"
    /\ \E ok \in BOOLEAN :
          /\ trace' = Append(trace, [op |-> "post_apply", layer |-> layer_i, ok |-> ok])
          /\ IF ok THEN Advance("post_apply") ELSE UnpackFail(UnpackErr("Sink"))
    /\ UNCHANGED <<unpack_frame, requests, tar>>

NextUnpack == Unpack \/ UnpackGetLayer \/ PreApply \/ Entries \/ Entry \/ PostApply

SpecUnpack == InitUnpack /\ [][NextUnpack]_vars

\* ======================================================== selectors alone
\* select_manifest of either selector, called on a manifest list, and called
\* again on the same list.
InitSelect ==
    /\ RegistryNew /\ ImageIdle /\ UnpackIdle
    /\ arg \in [IS : Selectors, manifest_list : ListManifests]
    /\ ret = NotCalled

SelectManifest ==
    /\ IF ~ret.called
       THEN ret' = [called |-> TRUE, fn |-> "select_manifest",
                    values |-> <<select_manifest(arg.IS, arg.manifest_list)>>,
                    manifest_list |-> arg.manifest_list]
       ELSE /\ ret.fn = "select_manifest"
            /\ Len(ret.values) < 2
            /\ ret' = [ret EXCEPT !.values =
                           Append(@, select_manifest(arg.IS, ret.manifest_list))]
    /\ UNCHANGED <<registry_vars, arg, ipc, image, requests, iresult,
                   upc, layer_i, tar, entry_i, trace, uresult>>

NextSelect == SelectManifest

SpecSelect == InitSelect /\ [][NextSelect]_vars

\* ======================================================== whiteout paths
\* apply_change and get_whiteout_path as functions of an entry's path.  A
\* component is a non-empty sequence of chunks; the chunk `..` alone is the
\* parent-directory component.
MaxNameLen == 3

MaxDirs == 1

\* The paths a tar entry can carry: directories (`x` or `..`), then nothing
\* or one more component.
InitPath ==
    /\ RegistryNew /\ ImageIdle /\ UnpackIdle
    /\ arg \in [path :
                 {dirs \o last :
                     dirs \in SeqsUpTo({<<"x">>, <<"..">>}, MaxDirs),
                     last \in {<<>>} \cup
                         {<<c>> : c \in SeqsUpTo({WH, ".opq", "x", ".."}, MaxNameLen)
                                            \ {<<>>}}}]
    /\ ret = NotCalled

\* apply_change on an entry with this path: the callbacks it issues.
ApplyChange ==
    /\ ~ret.called
    /\ ret' = [called |-> TRUE, fn |-> "apply_change", calls |-> <<apply_change(arg.path)>>]
    /\ UNCHANGED <<registry_vars, arg, ipc, image, requests, iresult,
                   upc, layer_i, tar, entry_i, trace, uresult>>

GetWhiteoutPath ==
    /\ ~ret.called
    /\ ret' = [called |-> TRUE, fn |-> "get_whiteout_path",
               value |-> get_whiteout_path(arg.path)]
    /\ UNCHANGED <<registry_vars, arg, ipc, image, requests, iresult,
                   upc, layer_i, tar, entry_i, trace, uresult>>

NextPath == ApplyChange \/ GetWhiteoutPath

SpecPath == InitPath /\ [][NextPath]_vars

\* ============================================================ path safety
\* partially_canonicalize and check_path_in over a small file system: the
\* root holds the directories `r`, `e` and `d`; `d` may not be searched; `r`
\* may hold an entry `l`: a directory, a symbolic link to /e, or a symbolic
\* link to /e/rx, which does not exist.  Nothing is named `rx`.
MaxPathLen == 3

\* The current directory, as an absolute path.
Cwd == <<"r">>

\* The target of the symbolic link /r/l.
LinkTarget(fs) == IF fs = "link_to_e" THEN <<"e">> ELSE <<"e", "rx">>

\* What the directory `dir` (an absolute path without links) holds under
\* `name`.
Lookup(fs, dir, name) ==
    IF dir = <<>> /\ name \in {"r", "e", "d"} THEN "dir"
    ELSE IF dir = <<"d">> THEN "denied"
    ELSE IF dir = <<"r">> /\ name = "l" /\ fs = "dir" THEN "dir"
    ELSE IF dir = <<"r">> /\ name = "l" /\ fs \in {"link_to_e", "dangling_link"} THEN "link"
    ELSE "absent"

\* The walk of realpath: from the directory `cur`, follow `comps`; every
\* component must exist, a link is replaced by its target.
RECURSIVE Walk(_, _, _)
Walk(fs, cur, comps) ==
    IF comps = <<>> THEN [ok |-> TRUE, path |-> cur]
    ELSE IF Head(comps) = ".."
         THEN Walk(fs, SubSeq(cur, 1, Len(cur) - 1), Tail(comps))
    ELSE LET found == Lookup(fs, cur, Head(comps))
         IN  IF found = "absent" THEN [ok |-> FALSE, kind |-> "NotFound"]
             ELSE IF found = "denied" THEN [ok |-> FALSE, kind |-> "PermissionDenied"]
             ELSE IF found = "link" THEN Walk(fs, <<>>, LinkTarget(fs) \o Tail(comps))
             ELSE Walk(fs, Append(cur, Head(comps)), Tail(comps))

\* Path::canonicalize: the empty path is not found.
canonicalize(fs, path) ==
    IF ~path.abs /\ path.comps = <<>> THEN [ok |-> FALSE, kind |-> "NotFound"]
    ELSE Walk(fs, IF path.abs THEN <<>> ELSE Cwd, path.comps)

\* PathAbs::new on an absolute path: `..` pops a component and fails at the
\* root, everything else is pushed.
RECURSIVE Resolve(_, _)
Resolve(res, comps) ==
    IF comps = <<>> THEN [ok |-> TRUE, path |-> res]
    ELSE IF Head(comps) = ".."
         THEN IF res = <<>> THEN [ok |-> FALSE, kind |-> "PathAbs"]
              ELSE Resolve(SubSeq(res, 1, Len(res) - 1), Tail(comps))
    ELSE Resolve(Append(res, Head(comps)), Tail(comps))

\* The ancestor of `path` that keeps its first k components.
Ancestor(path, k) == [abs |-> path.abs, comps |-> SubSeq(path.comps, 1, k)]

\* The ancestors are probed from the path itself down to the root or the
\* empty path; probes that fail with NotFound are passed over.  The number
\* of components of the ancestor that ends the loop, -1 when none does.
deciding_ancestor(fs, path) ==
    LET found == {k \in 0..Len(path.comps) :
                     canonicalize(fs, Ancestor(path, k)) # [ok |-> FALSE, kind |-> "NotFound"]}
    IN  IF found = {} THEN -1 ELSE CHOOSE k \in found : \A j \in found : j <= k

\* partially_canonicalize up to PathAbs::new: the buffer that holds the
\* canonicalized ancestor and, pushed onto it, the rest of the path.
partially_canonicalized(fs, path) ==
    LET k == deciding_ancestor(fs, path)
    IN  IF k = -1 THEN [ok |-> TRUE, abs |-> FALSE, comps |-> <<>>]
        ELSE IF ~canonicalize(fs, Ancestor(path, k)).ok
             THEN [ok |-> FALSE, err |-> "CanonicalizePath", base |-> Ancestor(path, k)]
        ELSE [ok |-> TRUE, abs |-> TRUE,
              comps |-> canonicalize(fs, Ancestor(path, k)).path
                        \o SubSeq(path.comps, k + 1, Len(path.comps))]

\* partially_canonicalize: PathAbs::new of that buffer.
partially_canonicalize(fs, path, empty) ==
    LET buf == partially_canonicalized(fs, path)
    IN  IF ~buf.ok THEN buf
        ELSE IF ~buf.abs THEN empty
        ELSE IF Resolve(<<>>, buf.comps).ok
             THEN [ok |-> TRUE, abs |-> TRUE, comps |-> Resolve(<<>>, buf.comps).path]
        ELSE [ok |-> FALSE, err |-> "PathAbs"]

\* Path::starts_with: the components of `base` begin the components of
\* `path`.  (Compared as text, the name `r` would also begin `rx`.)
starts_with_text(path, base) ==
    LET p == ((IF path.abs THEN <<"/">> ELSE <<>>) \o path.comps)
        b == ((IF base.abs THEN <<"/">> ELSE <<>>) \o base.comps)
    IN  /\ Len(b) <= Len(p)
        /\ \A i \in 1..(Len(b) - 1) : p[i] = b[i]
        /\ b # <<>> => \/ p[Len(b)] = b[Len(b)]
                       \/ b[Len(b)] = "r" /\ p[Len(b)] = "rx"

starts_with(path, base) ==
    LET p == ((IF path.abs THEN <<"/">> ELSE <<>>) \o path.comps)
        b == ((IF base.abs THEN <<"/">> ELSE <<>>) \o base.comps)
    IN  /\ Len(b) <= Len(p)
        /\ \A i \in 1..Len(b) : p[i] = b[i]

\* check_path_in: the candidate is canonicalized first, then the base.
check_path_in(fs, base, path, empty) ==
    LET canonicalized == partially_canonicalize(fs, path, empty)
    IN  IF ~canonicalized.ok THEN canonicalized
        ELSE IF ~partially_canonicalize(fs, base, empty).ok
             THEN partially_canonicalize(fs, base, empty)
        ELSE [ok |-> TRUE,
              value |-> starts_with(canonicalized, partially_canonicalize(fs, base, empty))]

\* A call is given the state of /r/l, a base, a candidate (absolute or
\* relative, over the names of the file system and `..`), and what
\* PathAbs::new makes of the empty path, which has no component to resolve:
\* the empty path itself, or the current directory.
InitCheckPath ==
    /\ RegistryNew /\ ImageIdle /\ UnpackIdle
    /\ arg \in
          [fs : {"absent", "dir", "link_to_e", "dangling_link"},
           base : {[abs |-> TRUE, comps |-> <<"r">>], [abs |-> TRUE, comps |-> <<"e">>],
                   [abs |-> TRUE, comps |-> <<"r", "l">>],
                   [abs |-> FALSE, comps |-> <<"rx">>]},
           path : [abs : BOOLEAN,
                   comps : SeqsUpTo({"r", "e", "d", "l", "rx", ".."}, MaxPathLen)],
           empty : {[ok |-> TRUE, abs |-> FALSE, comps |-> <<>>],
                    [ok |-> TRUE, abs |-> TRUE, comps |-> Cwd]}]
    /\ ret = NotCalled

PartiallyCanonicalize ==
    /\ ~ret.called
    /\ ret' = [called |-> TRUE, fn |-> "partially_canonicalize",
               buf |-> partially_canonicalized(arg.fs, arg.path),
               value |-> partially_canonicalize(arg.fs, arg.path, arg.empty)]
    /\ UNCHANGED <<registry_vars, arg, ipc, image, requests, iresult,
                   upc, layer_i, tar, entry_i, trace, uresult>>

CheckPathIn ==
    /\ ~ret.called
    /\ ret' = [called |-> TRUE, fn |-> "check_path_in",
               value |-> check_path_in(arg.fs, arg.base, arg.path, arg.empty)]
    /\ UNCHANGED <<registry_vars, arg, ipc, image, requests, iresult,
                   upc, layer_i, tar, entry_i, trace, uresult>>

NextCheckPath == PartiallyCanonicalize \/ CheckPathIn

SpecCheckPath == InitCheckPath /\ [][NextCheckPath]_vars

\* ============================================================ GOOS and GOARCH
\* The values of the two enumerations, by the names of their variants.
GoOsValues ==
    {"Android", "Darwin", "Dragonfly", "FreeBSD", "Linux", "NaCl",
     "NetBSD", "OpenBSD", "Plan9", "Solaris", "Windows", "ZOS"}

GoArchValues ==
    {"I386", "AMD64", "AMD64p32", "ARM", "ARMbe", "ARM64", "ARM64be",
     "PPC64", "PPC64le", "MIPS", "MIPSle", "MIPS64", "MIPS64le",
     "MIPS64p32", "MIPS64p32le", "PPC", "S390", "S390x", "SPARC", "SPARC64"}

GoOs_from_str(s) ==
    CASE s = "android" -> [ok |-> TRUE, value |-> "Android"]
      [] s = "darwin" -> [ok |-> TRUE, value |-> "Darwin"]
      [] s = "dragonfly" -> [ok |-> TRUE, value |-> "Dragonfly"]
      [] s = "freebsd" -> [ok |-> TRUE, value |-> "FreeBSD"]
      [] s = "linux" -> [ok |-> TRUE, value |-> "Linux"]
      [] s = "nacl" -> [ok |-> TRUE, value |-> "NaCl"]
      [] s = "netbsd" -> [ok |-> TRUE, value |-> "NetBSD"]
      [] s = "openbsd" -> [ok |-> TRUE, value |-> "OpenBSD"]
      [] s = "plan9" -> [ok |-> TRUE, value |-> "Plan9"]
      [] s = "solaris" -> [ok |-> TRUE, value |-> "Solaris"]
      [] s = "windows" -> [ok |-> TRUE, value |-> "Windows"]
      [] s = "zos" -> [ok |-> TRUE, value |-> "ZOS"]
      [] OTHER -> [ok |-> FALSE, err |-> "InvalidGoOs", s |-> s]

\* The variant's own name, as Debug writes it.
GoOs_fmt_variant_name(v) == v

GoOs_fmt(v) ==
    CASE v = "Android" -> "android"
      [] v = "Darwin" -> "darwin"
      [] v = "Dragonfly" -> "dragonfly"
      [] v = "FreeBSD" -> "freebsd"
      [] v = "Linux" -> "linux"
      [] v = "NaCl" -> "nacl"
      [] v = "NetBSD" -> "netbsd"
      [] v = "OpenBSD" -> "openbsd"
      [] v = "Plan9" -> "plan9"
      [] v = "Solaris" -> "solaris"
      [] v = "Windows" -> "windows"
      [] v = "ZOS" -> "zos"

GoArch_from_str(s) ==
    CASE s = "386" -> [ok |-> TRUE, value |-> "I386"]
      [] s = "amd64" -> [ok |-> TRUE, value |-> "AMD64"]
      [] s = "amd64p32" -> [ok |-> TRUE, value |-> "AMD64p32"]
      [] s = "arm" -> [ok |-> TRUE, value |-> "ARM"]
      [] s = "armbe" -> [ok |-> TRUE, value |-> "ARMbe"]
      [] s = "arm64" -> [ok |-> TRUE, value |-> "ARM64"]
      [] s = "arm64be" -> [ok |-> TRUE, value |-> "ARM64be"]
      [] s = "ppc64" -> [ok |-> TRUE, value |-> "PPC64"]
      [] s = "ppc64le" -> [ok |-> TRUE, value |-> "PPC64le"]
      [] s = "mips" -> [ok |-> TRUE, value |-> "MIPS"]
      [] s = "mipsle" -> [ok |-> TRUE, value |-> "MIPSle"]
      [] s = "mips64" -> [ok |-> TRUE, value |-> "MIPS64"]
      [] s = "mips64le" -> [ok |-> TRUE, value |-> "MIPS64le"]
      [] s = "mips64p32" -> [ok |-> TRUE, value |-> "MIPS64p32"]
      [] s = "mips64p32le" -> [ok |-> TRUE, value |-> "MIPS64p32le"]
      [] s = "ppc" -> [ok |-> TRUE, value |-> "PPC"]
      [] s = "s390" -> [ok |-> TRUE, value |-> "S390"]
      [] s = "s390x" -> [ok |-> TRUE, value |-> "S390x"]
      [] s = "sparc" -> [ok |-> TRUE, value |-> "SPARC"]
      [] s = "sparc64" -> [ok |-> TRUE, value |-> "SPARC64"]
      [] OTHER -> [ok |-> FALSE, err |-> "InvalidGoArch", s |-> s]

GoArch_fmt(v) ==
    CASE v = "I386" -> "386"
      [] v = "AMD64" -> "amd64"
      [] v = "AMD64p32" -> "amd64p32"
      [] v = "ARM" -> "arm"
      [] v = "ARMbe" -> "armbe"
      [] v = "ARM64" -> "arm64"
      [] v = "ARM64be" -> "arm64be"
      [] v = "PPC64" -> "ppc64"
      [] v = "PPC64le" -> "ppc64le"
      [] v = "MIPS" -> "mips"
      [] v = "MIPSle" -> "mipsle"
      [] v = "MIPS64" -> "mips64"
      [] v = "MIPS64le" -> "mips64le"
      [] v = "MIPS64p32" -> "mips64p32"
      [] v = "MIPS64p32le" -> "mips64p32le"
      [] v = "PPC" -> "ppc"
      [] v = "S390" -> "s390"
      [] v = "S390x" -> "s390x"
      [] v = "SPARC" -> "sparc"
      [] v = "SPARC64" -> "sparc64"

\* The strings that are parsed are the names of both enumerations and
\* strings that name nothing.
InitGo ==
    /\ RegistryNew /\ ImageIdle /\ UnpackIdle
    /\ arg \in [s : {GoOs_fmt(v) : v \in GoOsValues}
                       \cup {GoArch_fmt(v) : v \in GoArchValues}
                       \cup {"", "Linux", "linux ", "x86_64", "AMD64", "arm64le"},
                 os : GoOsValues, arch : GoArchValues]
    /\ ret = NotCalled

GoOsFromStr ==
    /\ ~ret.called
    /\ ret' = [called |-> TRUE, fn |-> "GoOs::from_str", value |-> GoOs_from_str(arg.s)]
    /\ UNCHANGED <<registry_vars, arg, ipc, image, requests, iresult,
                   upc, layer_i, tar, entry_i, trace, uresult>>

GoOsToString ==
    /\ ~ret.called
    /\ ret' = [called |-> TRUE, fn |-> "GoOs::to_string", value |-> GoOs_fmt(arg.os)]
    /\ UNCHANGED <<registry_vars, arg, ipc, image, requests, iresult,
                   upc, layer_i, tar, entry_i, trace, uresult>>

GoArchFromStr ==
    /\ ~ret.called
    /\ ret' = [called |-> TRUE, fn |-> "GoArch::from_str", value |-> GoArch_from_str(arg.s)]
    /\ UNCHANGED <<registry_vars, arg, ipc, image, requests, iresult,
                   upc, layer_i, tar, entry_i, trace, uresult>>

GoArchToString ==
    /\ ~ret.called
    /\ ret' = [called |-> TRUE, fn |-> "GoArch::to_string", value |-> GoArch_fmt(arg.arch)]
    /\ UNCHANGED <<registry_vars, arg, ipc, image, requests, iresult,
                   upc, layer_i, tar, entry_i, trace, uresult>>

NextGo == GoOsFromStr \/ GoOsToString \/ GoArchFromStr \/ GoArchToString

SpecGo == InitGo /\ [][NextGo]_vars

\* ============================================================ properties
\* Vocabulary of the properties, read off the exchanges in `log` and the
\* header of the first response (not off the engine's own variables).
Is2xx(e) == ~e.failed /\ e.status \in 200..299

IsNon2xx(e) == ~e.failed /\ e.status \notin 200..299

InCall == pc # "idle" /\ Len(log) >= 1

\* Positions in `log` of the requests to the resource URL / to a realm.
ResourceIdx == {i \in 1..Len(log) : log[i].to = "resource"}

RetryIdx == ResourceIdx \ {1}

RealmIdx == {i \in 1..Len(log) : log[i].to = "realm"}

\* The credentialed retries, in the order they were sent.
Retries == SelectSeq(Tail(log), LAMBDA e : e.to = "resource")

\* The tokens the realms granted during this call, in the order granted.
Granted ==
    LET ok == SelectSeq(log, LAMBDA e : e.to = "realm" /\ Is2xx(e) /\ e.body \in TokenStrings)
    IN  [i \in 1..Len(ok) |-> ok[i].body]

\* The Bearer challenges of the first response's header, in header order.
FirstHeader == log[1].www_authenticate

BearerOf(w) == SelectSeq(w.challenges, LAMBDA c : c.scheme = "Bearer")

\* Those among them that are given as fields (realm=..., ...).
BearerFieldsOf(w) == SelectSeq(BearerOf(w), LAMBDA c : c.form = "Fields")

First401 == InCall /\ ~log[1].failed /\ log[1].status = 401

\* The first answer is a 401 whose header the auth engine can work with.
Challenged == First401 /\ FirstHeader.parses /\ BearerOf(FirstHeader) # <<>>

\* ---------------------------------------------------------------------
\* C1: when the first attempt of get receives a 2xx response, get returns
\* that very response and attempts no authentication: do_challenge is not
\* invoked, no token request and no second resource request are sent.
C1_SuccessReturnedAsIs ==
    (InCall /\ Is2xx(log[1])) =>
        /\ pc = "done"
        /\ result = OkResponse(1)
        /\ Len(log) = 1
        /\ log[1].to = "resource" /\ log[1].auth = None
        /\ try_auth_calls = 0

C1_Witness ==
    /\ pc = "done" /\ Len(log) = 1
    /\ ~log[1].failed /\ log[1].status = 204
    /\ result = OkResponse(1)

\* ---------------------------------------------------------------------
\* C2: after a 401 with a usable challenge, the retries go to the same URL
\* with the same extra headers, the j-th retry carrying the j-th credential
\* the auth engine obtained; no retry follows a 2xx; the first 2xx response
\* is what get returns; and when every credential was tried and each retry
\* was answered with a non-2xx status, get fails with CouldNotAuthenticate.
C2_RetryWithEachCredentialInOrder ==
    Challenged =>
        /\ Len(Retries) <= Len(Granted)
        /\ \A j \in 1..Len(Retries) :
              /\ Retries[j].url = url
              /\ Retries[j].url = log[1].url
              /\ Retries[j].headers = headers
              /\ Retries[j].headers = log[1].headers
              /\ Retries[j].auth = Granted[j]
        /\ \A j \in 1..(Len(Retries) - 1) : IsNon2xx(Retries[j])
        /\ (Retries # <<>> /\ Is2xx(Retries[Len(Retries)])) =>
              (pc = "done" /\ result = OkResponse(Len(log)))
        /\ result.kind = "Ok" =>
              (Retries # <<>> /\ Is2xx(log[result.arg]) /\ result.arg = Len(log))
        /\ (pc = "done" /\ \A j \in 1..Len(Retries) : IsNon2xx(Retries[j])) =>
              (result = CouldNotAuthenticate /\ Len(Retries) = Len(Granted))

\* Two different tokens were granted, the first was refused with a non-2xx
\* status and the second was accepted.
C2_Witness ==
    /\ Challenged /\ pc = "done"
    /\ headers = "h1"
    /\ Len(Retries) = 2
    /\ Granted[1] # Granted[2]
    /\ Retries[1].status = 403
    /\ result = OkResponse(Len(log))

\* ---------------------------------------------------------------------
\* C3: within one get call do_challenge is invoked at most once; once a
\* credentialed retry has been sent no token request follows, also when the
\* retry is answered 401 with a fresh Bearer challenge.
C3_OneChallengeRound ==
    /\ try_auth_calls <= 1
    /\ \A i \in RetryIdx : \A j \in RealmIdx : j < i
    /\ Cardinality(RealmIdx) <= (IF InCall THEN Len(BearerOf(FirstHeader)) ELSE 0)

C3_Witness ==
    /\ pc = "done" /\ try_auth_calls = 1
    /\ \E i \in RetryIdx :
          /\ log[i].status = 401
          /\ log[i].www_authenticate = RetryChallengeHeader
    /\ result = CouldNotAuthenticate

\* ---------------------------------------------------------------------
\* C4 as stated: after any response to the resource URL whose status is
\* neither 2xx nor 401, first attempt or credentialed retry, no further
\* request is sent to the resource.
C4_NoRetryAfterNon401 ==
    \A i \in ResourceIdx :
        (IsNon2xx(log[i]) /\ log[i].status # 401) =>
            \A j \in ResourceIdx : j <= i

\* C4 as the code has it: a first answer that is neither 2xx nor 401 ends
\* the call with CouldNotGetToken(status) and nothing further is sent; a
\* non-2xx answer to a credentialed retry, 401 or not, is not surfaced: the
\* next credential is tried, and when none remains the call fails with
\* CouldNotAuthenticate.
C4_Amended ==
    /\ (InCall /\ IsNon2xx(log[1]) /\ log[1].status # 401) =>
          (pc = "done" /\ Len(log) = 1 /\ result = CouldNotGetToken(log[1].status))
    /\ Challenged =>
          \A j \in 1..Len(Retries) :
              IsNon2xx(Retries[j]) =>
                  /\ j < Len(Retries) => Retries[j + 1].auth = Granted[j + 1]
                  /\ j = Len(Retries) =>
                        \/ pc = "retry" /\ ri = j + 1
                        \/ /\ pc = "done"
                           /\ result = CouldNotAuthenticate
                           /\ j = Len(Granted)

\* A retry answered 500 was followed by the retry with the next credential.
C4_Witness ==
    /\ pc = "done"
    /\ Len(Retries) = 2
    /\ Retries[1].status = 500
    /\ Retries[2].auth = Granted[2]

\* ---------------------------------------------------------------------
\* C5: a first answer with a non-2xx status s other than 401 makes get fail
\* with CouldNotGetToken(s), whatever headers it carries, without invoking
\* the auth engine and without any token request or second request.
C5_FirstNon401IsCouldNotGetToken ==
    (InCall /\ IsNon2xx(log[1]) /\ log[1].status # 401) =>
        /\ pc = "done"
        /\ result = CouldNotGetToken(log[1].status)
        /\ result.arg = log[1].status
        /\ Len(log) = 1
        /\ try_auth_calls = 0

\* A 403 that does carry a Bearer challenge with a realm.
C5_Witness ==
    /\ pc = "done" /\ Len(log) = 1
    /\ log[1].status = 403
    /\ BearerFieldsOf(FirstHeader) # <<>>
    /\ result = CouldNotGetToken(403)

\* ---------------------------------------------------------------------
\* C6: a first answer 401 without a WWW-Authenticate header makes get fail
\* with InvalidAuthenticationChallenge; no token request, no retry.
C6_NoHeaderIsInvalidChallenge ==
    (First401 /\ ~FirstHeader.present) =>
        /\ pc = "done"
        /\ result = InvalidAuthenticationChallenge
        /\ Len(log) = 1
        /\ try_auth_calls = 0

C6_Witness ==
    /\ pc = "done" /\ Len(log) = 1
    /\ log[1].status = 401 /\ FirstHeader = NoHeader
    /\ result = InvalidAuthenticationChallenge

\* ---------------------------------------------------------------------
\* C7: when the header value of the 401 does not parse or holds no
\* challenge of scheme Bearer, do_challenge (invoked once) fails with
\* InvalidAuthenticationChallenge, no token request is sent, and get
\* returns that error without a retry.
C7_NoBearerIsInvalidChallenge ==
    (First401 /\ FirstHeader.present
       /\ (~FirstHeader.parses \/ BearerOf(FirstHeader) = <<>>)) =>
        /\ pc = "done"
        /\ try_auth_calls = 1
        /\ result = InvalidAuthenticationChallenge
        /\ RealmIdx = {}
        /\ Len(log) = 1

\* A parseable header with a Basic challenge that names a realm.
C7_Witness ==
    /\ pc = "done" /\ First401
    /\ FirstHeader.parses
    /\ \E k \in 1..Len(FirstHeader.challenges) :
          FirstHeader.challenges[k].realm # None
    /\ BearerOf(FirstHeader) = <<>>
    /\ result = InvalidAuthenticationChallenge

\* ---------------------------------------------------------------------
\* C8: in do_challenge a Bearer challenge without a realm gets no token
\* request, and neither it nor a challenge whose token request fails stops
\* the others: token requests go, in challenge order, to exactly the
\* challenges that name a realm; do_challenge returns Ok with the granted
\* tokens in that order; when there are none get fails with
\* CouldNotAuthenticate and sends no retry.
C8_FailedChallengesAreSkipped ==
    Challenged =>
        LET withRealm == SelectSeq(BearerFieldsOf(FirstHeader), LAMBDA c : c.realm # None)
            realmEx == SelectSeq(log, LAMBDA e : e.to = "realm")
        IN  /\ Len(realmEx) <= Len(withRealm)
            /\ \A k \in 1..Len(realmEx) :
                  realmEx[k].url = withRealm[k].realm /\ realmEx[k].auth = None
            /\ pc \in {"retry", "done"} =>
                  /\ Len(realmEx) = Len(withRealm)
                  /\ credentials = Granted
            /\ (pc = "done" /\ Granted = <<>>) =>
                  (result = CouldNotAuthenticate /\ Retries = <<>>)

\* The first Bearer challenge has no realm, the second one's realm answers
\* 403: one token request, no credential, no retry.
C8_Witness ==
    /\ pc = "done" /\ Challenged
    /\ Len(BearerFieldsOf(FirstHeader)) = 2
    /\ BearerFieldsOf(FirstHeader)[1].realm = None
    /\ BearerFieldsOf(FirstHeader)[2].realm = "r2"
    /\ Len(log) = 2
    /\ log[2].to = "realm" /\ log[2].url = "r2" /\ log[2].status = 403
    /\ result = CouldNotAuthenticate

\* ---------------------------------------------------------------------
\* C9 as stated: a 401 whose challenge cannot be used (no header, no Bearer
\* scheme, or a single Bearer challenge that lacks a realm) makes get fail
\* with InvalidAuthenticationChallenge.
C9_UnusableChallengeIsInvalidChallenge ==
    (pc = "done" /\ First401
       /\ \/ ~FirstHeader.present
          \/ ~FirstHeader.parses
          \/ BearerOf(FirstHeader) = <<>>
          \/ /\ Len(BearerOf(FirstHeader)) = 1
             /\ BearerOf(FirstHeader)[1].form = "Fields"
             /\ BearerOf(FirstHeader)[1].realm = None) =>
        result = InvalidAuthenticationChallenge

\* C9 as the code has it: a missing header, an unparseable header and a
\* header without a Bearer challenge are surfaced as
\* InvalidAuthenticationChallenge; a Bearer challenge without a realm is
\* skipped inside do_challenge (Token::get's error for it is dropped), so a
\* 401 none of whose Bearer challenges names a realm makes get fail with
\* CouldNotAuthenticate, with no token request and no retry.
C9_Amended ==
    /\ (pc = "done" /\ First401
          /\ (~FirstHeader.present \/ ~FirstHeader.parses \/ BearerOf(FirstHeader) = <<>>)) =>
          result = InvalidAuthenticationChallenge
    /\ Challenged => result # InvalidAuthenticationChallenge
    /\ (pc = "done" /\ Challenged
          /\ \A k \in 1..Len(BearerOf(FirstHeader)) : BearerOf(FirstHeader)[k].realm = None) =>
          (result = CouldNotAuthenticate /\ Len(log) = 1)
    /\ \A k \in 1..Len(token_results) :
          challenges[k].realm = None =>
              token_results[k] = TokenErr(InvalidAuthenticationChallenge)

\* The only Bearer challenge is given as fields and has no realm.
C9_Witness ==
    /\ pc = "done" /\ First401
    /\ Len(BearerOf(FirstHeader)) = 1
    /\ BearerOf(FirstHeader)[1].form = "Fields"
    /\ BearerOf(FirstHeader)[1].realm = None
    /\ token_results = <<TokenErr(InvalidAuthenticationChallenge)>>
    /\ result = CouldNotAuthenticate

\* ---------------------------------------------------------------------
\* C10 as stated: whenever a transport failure occurred during the call, on
\* the first attempt, a token request or a retry, get returns ReqwestError.
C10_EveryTransportFailureSurfaced ==
    (pc = "done" /\ \E i \in 1..Len(log) : log[i].failed) =>
        result = ReqwestError

\* C10 as the code has it: a transport failure of a request to the resource
\* URL (first attempt or retry) ends the call at once with ReqwestError; a
\* transport failure of a token request is dropped together with that
\* challenge: it yields no credential, is never what get returns, and the
\* call goes on with the remaining challenges and credentials.
C10_Amended ==
    /\ \A i \in ResourceIdx :
          log[i].failed => (pc = "done" /\ result = ReqwestError /\ i = Len(log))
    /\ result = ReqwestError =>
          (log[Len(log)].to = "resource" /\ log[Len(log)].failed)
    /\ \A k \in 1..Len(token_results) :
          (challenges[k].realm # None
             /\ \E i \in RealmIdx :
                   /\ Cardinality({j \in RealmIdx : j <= i}) =
                        Cardinality({m \in 1..k : challenges[m].realm # None})
                   /\ log[i].failed) =>
              token_results[k] = TokenErr(ReqwestError)
    /\ (pc \in {"retry", "done"} /\ Challenged) =>
          Len(credentials) = Cardinality({i \in RealmIdx : Is2xx(log[i]) /\ log[i].body \in TokenStrings})

\* The first token request failed in transport; the second realm granted a
\* token and the retry with it succeeded.
C10_Witness ==
    /\ pc = "done" /\ Len(log) = 4
    /\ log[2].to = "realm" /\ log[2].failed
    /\ log[3].to = "realm" /\ log[3].body \in TokenStrings
    /\ result = OkResponse(4)

\* ---------------------------------------------------------------------
\* C11: get never writes the credential cache: it is empty after
\* Registry::new and stays empty on every path, so the first attempt of
\* every get carries no Authorization, and a get on the URL whose previous
\* get succeeded with a credential goes through the whole challenge round
\* again (a token request for every Bearer challenge that names a realm
\* before any credentialed retry).
C11_CacheNeverWritten ==
    /\ DOMAIN credential_cache = {}
    /\ InCall => (log[1].to = "resource" /\ log[1].auth = None)
    /\ (Challenged /\ url = authenticated_url /\ pc \in {"retry", "done"}) =>
          Cardinality(RealmIdx) =
             Len(SelectSeq(BearerFieldsOf(FirstHeader), LAMBDA c : c.realm # None))

\* The second get on a URL whose first get succeeded with a credential: it
\* was sent without Authorization, was challenged, fetched a token again
\* and succeeded with it.
C11_Witness ==
    /\ pc = "done" /\ Challenged
    /\ authenticated_url = url
    /\ log[1].auth = None
    /\ RealmIdx # {}
    /\ result.kind = "Ok" /\ result.arg = Len(log)
    /\ DOMAIN credential_cache = {}

\* ---------------------------------------------------------------------
\* Vocabulary of C12.  The query parameters named `key`, in order.
ParamsNamed(request, key) ==
    LET sel == SelectSeq(request.query, LAMBDA kv : kv[1] = key)
    IN  [i \in 1..Len(sel) |-> sel[i][2]]

\* The number of whitespace-separated elements of a string: the maximal runs
\* of characters that are neither a space nor a tab.
WhitespaceElements(str) ==
    Cardinality({i \in 1..Len(str) :
                    /\ str[i] \notin {" ", "\t"}
                    /\ (i = 1 \/ str[i - 1] \in {" ", "\t"})})

\* Sequences joined with one space between neighbours.
RECURSIVE JoinWithSpace(_)
JoinWithSpace(pieces) ==
    IF pieces = <<>> THEN <<>>
    ELSE IF Len(pieces) = 1 THEN pieces[1]
    ELSE pieces[1] \o <<" ">> \o JoinWithSpace(Tail(pieces))

\* What C12 and its amendment agree on: a realm gets a GET without
\* Authorization, with service=<service> exactly when the challenge has one.
TokenRequestBasics ==
    /\ ret.request.sent <=> arg.realm # None
    /\ ret.request.sent =>
          /\ ret.request.method = "GET"
          /\ ret.request.url = arg.realm
          /\ ret.request.auth = None
          /\ ParamsNamed(ret.request, "service") =
                (IF arg.service = None THEN <<>> ELSE <<arg.service>>)
          /\ ~arg.has_scope => ParamsNamed(ret.request, "scope") = <<>>

\* C12 as stated: the token request carries exactly one scope parameter per
\* whitespace-separated element of the challenge's scope string.
C12_OneScopePerWhitespaceElement ==
    ret.called =>
        /\ TokenRequestBasics
        /\ (ret.request.sent /\ arg.has_scope) =>
              /\ Len(ParamsNamed(ret.request, "scope")) = WhitespaceElements(arg.scope)
              /\ \A i \in 1..Len(ParamsNamed(ret.request, "scope")) :
                    /\ ParamsNamed(ret.request, "scope")[i] # <<>>
                    /\ \A k \in 1..Len(ParamsNamed(ret.request, "scope")[i]) :
                          ParamsNamed(ret.request, "scope")[i][k] \notin {" ", "\t"}

\* C12 as the code has it: the scope string is cut at every single space
\* character and at nothing else: the scope parameters, in order, contain no
\* space, joined with single spaces they give back the scope string, so
\* there is one more parameter than there are spaces (an empty string and
\* adjacent spaces give empty values; a tab does not separate).
C12_Amended ==
    ret.called =>
        /\ TokenRequestBasics
        /\ (ret.request.sent /\ arg.has_scope) =>
              LET ps == ParamsNamed(ret.request, "scope")
              IN  /\ Len(ps) = 1 + Cardinality({i \in 1..Len(arg.scope) : arg.scope[i] = " "})
                  /\ \A i \in 1..Len(ps) : \A k \in 1..Len(ps[i]) : ps[i][k] # " "
                  /\ JoinWithSpace(ps) = arg.scope

\* A challenge with realm and service whose scope holds two adjacent spaces
\* and so yields an empty scope value.
C12_Witness ==
    /\ ret.called /\ ret.request.sent
    /\ arg.service = "s1"
    /\ arg.has_scope /\ arg.scope = <<"a", " ", " ">>
    /\ ParamsNamed(ret.request, "scope") = <<<<"a">>, <<>>, <<>>>>

\* ---------------------------------------------------------------------
\* Vocabulary of C13 and C14.
Probed == ret.called /\ ret.fn = "probe_manifest_v2_schema"

Parsed == ret.called /\ ret.fn = "from_str"

HasSchemaVersion(n) ==
    arg.json /\ arg.schemaVersion.kind = "u64" /\ arg.schemaVersion.n = n

\* The part of a media type before its first '+': its longest prefix
\* without a '+'.
BeforeFirstPlus(str) ==
    LET n == CHOOSE k \in 0..Len(str) :
                /\ \A i \in 1..k : str[i] # "+"
                /\ (k = Len(str) \/ str[k + 1] = "+")
    IN  SubSeq(str, 1, n)

ManifestPrefixes == {<<OCI_MANIFEST>>, <<DOCKER_MANIFEST>>}

ListPrefixes == {<<OCI_LIST>>, <<DOCKER_LIST>>}

\* The document that has schemaVersion 2, the given media type and nothing
\* else.
BareSchema2(str) ==
    [json |-> TRUE, schemaVersion |-> [kind |-> "u64", n |-> 2],
     mediaType |-> [kind |-> "string", str |-> str],
     v2_1_members |-> FALSE, v2_2_members |-> FALSE, list_members |-> FALSE]

\* C13: the probe answers Schema1 for schemaVersion 1 whatever the mediaType
\* is; for schemaVersion 2 its answer is a function of the part of mediaType
\* before the first '+' alone, Schema2 for the two manifest prefixes and
\* Schema2List for the two list prefixes; and a manifest from_str returns has
\* the variant the probe selected.
C13_ProbeSelectsVariant ==
    /\ (Probed /\ HasSchemaVersion(1)) => ret.value = ProbeOk("Schema1")
    /\ (Probed /\ HasSchemaVersion(2) /\ arg.mediaType.kind = "string") =>
          /\ BeforeFirstPlus(arg.mediaType.str) \in ManifestPrefixes
                => ret.value = ProbeOk("Schema2")
          /\ BeforeFirstPlus(arg.mediaType.str) \in ListPrefixes
                => ret.value = ProbeOk("Schema2List")
          /\ ret.value.ok =>
                ret.value = probe_manifest_v2_schema(
                                BareSchema2(BeforeFirstPlus(arg.mediaType.str)))
    /\ (Parsed /\ ret.value.ok) =>
          /\ probe_manifest_v2_schema(arg).ok
          /\ ret.value.variant = probe_manifest_v2_schema(arg).schema
          /\ HasSchemaVersion(1) <=> ret.value.variant = "Schema1"
          /\ ret.value.variant = "Schema2" =>
                BeforeFirstPlus(arg.mediaType.str) \in ManifestPrefixes
          /\ ret.value.variant = "Schema2List" =>
                BeforeFirstPlus(arg.mediaType.str) \in ListPrefixes

\* A Docker manifest list media type with a suffix, in a document that fits
\* both version 2 structs, parses to a Schema2List.
C13_Witness ==
    /\ Parsed /\ HasSchemaVersion(2)
    /\ arg.mediaType.str = <<DOCKER_LIST, "+", "json">>
    /\ arg.v2_2_members /\ arg.list_members
    /\ ret.value = ManifestOk("Schema2List")

\* C14: every schemaVersion other than 1 and 2 makes the probe fail with
\* InvalidSchemaVersion of that number whatever the mediaType is, absent or
\* unknown included; schemaVersion 2 with a media type whose part before the
\* first '+' is none of the four prefixes fails with InvalidMediaType of the
\* whole media type string.
C14_ProbeErrors ==
    Probed =>
        /\ (arg.json /\ arg.schemaVersion.kind = "u64" /\ arg.schemaVersion.n \notin {1, 2})
              => ret.value = InvalidSchemaVersion(arg.schemaVersion.n)
        /\ (HasSchemaVersion(2) /\ arg.mediaType.kind = "string"
              /\ BeforeFirstPlus(arg.mediaType.str) \notin ManifestPrefixes \cup ListPrefixes)
              => ret.value = InvalidMediaType(arg.mediaType.str)
        /\ (~ret.value.ok /\ ret.value.err = "InvalidSchemaVersion")
              => ~HasSchemaVersion(1) /\ ~HasSchemaVersion(2)

\* A known prefix that is followed by something other than '+' is unknown,
\* and the error carries the whole string.
C14_Witness ==
    /\ Probed /\ HasSchemaVersion(2)
    /\ arg.mediaType.str = <<OCI_MANIFEST, "json", "+">>
    /\ ret.value = InvalidMediaType(<<OCI_MANIFEST, "json", "+">>)

\* ---------------------------------------------------------------------
\* Vocabulary of C15 to C18.  The manifest GET was answered with a document
\* that parsed as a manifest list.
ListReceived ==
    /\ requests # <<>>
    /\ requests[1].kind = "manifest"
    /\ requests[1].answer.err = None
    /\ requests[1].answer.text_ok
    /\ requests[1].answer.members.schema = "Schema2List"

ReceivedList == requests[1].answer.members

Constructing == ipc \in {"idle", "get_current_platform_manifest"}

\* The entry the selector of this Image::new picks, 0 for none: the
\* platform selector the first entry of the host's platform, the test
\* selector the first entry.
PickedEntry ==
    LET entries == ReceivedList.manifests
        eligible == IF arg.IS = "ImagePlatformSelector"
                    THEN {i \in 1..Len(entries) : entries[i].platform_matches}
                    ELSE 1..Len(entries)
    IN  IF eligible = {} THEN 0 ELSE CHOOSE i \in eligible : \A j \in eligible : i <= j

\* The answer to a request carried a document that is a schema 2 manifest.
GaveSchema2(request) ==
    /\ request.answer.err = None
    /\ request.answer.text_ok
    /\ request.answer.members.schema = "Schema2"

\* C15: an Image that Image::new returned holds no manifest list: after a
\* list was received, the picked entry's manifest has been fetched by its
\* digest and is the stored Schema 2 manifest; when nothing is picked or the
\* fetch fails, Image::new has returned an error and there is no Image.
C15_NoListInImage ==
    /\ ipc = "ready" =>
          /\ image.returned
          /\ image.manifest.schema \in {"Schema1", "Schema2"}
          /\ iresult.called
    /\ ipc = "failed" => image = NoImage /\ iresult.called /\ ~iresult.value.ok
    /\ (ListReceived /\ ~Constructing) =>
          IF PickedEntry # 0 /\ Len(requests) >= 2 /\ GaveSchema2(requests[2])
          THEN /\ ipc = "ready"
               /\ requests[2].kind = "blob"
               /\ requests[2].target = ReceivedList.manifests[PickedEntry].digest
               /\ image.manifest.schema = "Schema2"
               /\ image.manifest = requests[2].answer.members
          ELSE ipc = "failed"

\* The platform selector skipped the first entry, and the second entry's
\* manifest, fetched by digest, is the image's manifest.
C15_Witness ==
    /\ ipc = "ready" /\ ListReceived
    /\ arg.IS = "ImagePlatformSelector"
    /\ PickedEntry = 2
    /\ ReceivedList.manifests[1].digest # ReceivedList.manifests[2].digest
    /\ Len(requests) = 2
    /\ requests[2].target = ReceivedList.manifests[2].digest
    /\ image.manifest = requests[2].answer.members
    /\ Len(image.manifest.layers) = MaxLayers

\* C16: when the registry returned a manifest list of which the selector
\* picks no entry, Image::new fails with NoMatchingPlatform and the manifest
\* GET stays the only request: nothing is fetched for any entry.
C16_NothingPickedNothingFetched ==
    (ListReceived /\ ~Constructing /\ PickedEntry = 0) =>
        /\ ipc = "failed"
        /\ iresult.value = ImageErr("NoMatchingPlatform")
        /\ Len(requests) = 1

\* A list with entries, none of the host's platform.
C16_Witness ==
    /\ ipc = "failed" /\ ListReceived
    /\ arg.IS = "ImagePlatformSelector"
    /\ Len(ReceivedList.manifests) = MaxEntries
    /\ PickedEntry = 0
    /\ iresult.value = ImageErr("NoMatchingPlatform")
    /\ Len(requests) = 1

\* The requests the last operation on the image sent.
SentByLast == SubSeq(requests, iresult.before + 1, Len(requests))

LastWas(op) == ipc = "ready" /\ iresult.called /\ iresult.op = op

FetchedLayer == image.manifest.layers[iresult.value.layer]

GzipMediaTypes == {GZIP_LAYER, OCI_GZIP_LAYER}

DeclaresMediaType(layer) == "media_type" \in DOMAIN layer

\* C18 as stated: get_layer puts a gzip decoder over the body exactly when
\* the layer declares a media type that indicates gzip; a layer without a
\* media type is read as plain tar.
C18_GzipOnlyWhenDeclared ==
    (LastWas("get_layer") /\ iresult.value.ok) =>
        (iresult.value.reader = "GzDecoder"
            <=> (DeclaresMediaType(FetchedLayer)
                   /\ FetchedLayer.media_type \in GzipMediaTypes))

\* C18 as the code has it: the body is passed through exactly when the layer
\* declares a media type and that type does not indicate gzip; a layer that
\* declares none gets the gzip decoder like a gzipped one.
C18_Amended ==
    (LastWas("get_layer") /\ iresult.value.ok) =>
        /\ iresult.value.reader \in {"GzDecoder", "Response"}
        /\ iresult.value.reader = "Response"
              <=> (DeclaresMediaType(FetchedLayer)
                     /\ FetchedLayer.media_type \notin GzipMediaTypes)
        /\ Len(SentByLast) = 1
        /\ SentByLast[1].kind = "blob"
        /\ SentByLast[1].target = FetchedLayer.digest

\* A layer of a Schema 1 manifest, which has no media type, is gunzipped.
C18_Witness ==
    /\ LastWas("get_layer") /\ iresult.value.ok
    /\ image.manifest.schema = "Schema1"
    /\ ~DeclaresMediaType(FetchedLayer)
    /\ iresult.value.reader = "GzDecoder"

\* ---------------------------------------------------------------------
\* Vocabulary of C19 and C20.  The positions of `trace` at which unpack
\* called the sink, and the position of a call within its layer.
EntryCallbacks == {"add", "whiteout_file", "whiteout_folder"}

SinkCalls ==
    {i \in DOMAIN trace : trace[i].op \in EntryCallbacks \cup {"pre_apply", "post_apply"}}

EntryCalls == {i \in DOMAIN trace : trace[i].op \in EntryCallbacks}

Fetches == {i \in DOMAIN trace : trace[i].op = "get_layer"}

Rank(op) ==
    CASE op = "get_layer" -> 0
      [] op = "pre_apply" -> 1
      [] op \in EntryCallbacks -> 2
      [] op = "post_apply" -> 3

OfLayer(S, l) == {i \in S : trace[i].layer = l}

\* C19: layers are applied in manifest order and entries in tar order:
\* every sink call for a layer comes before every sink call for a later
\* layer, no layer is begun before the one before it was finished, the
\* layers are fetched by the manifest's digests in its order, and within a
\* layer the one pre_apply precedes the entry callbacks, which come in the
\* order of the tar's entries, one per entry, and precede the one
\* post_apply.
C19_LayersAndEntriesInOrder ==
    /\ \A a, b \in SinkCalls : a < b =>
          /\ trace[a].layer <= trace[b].layer
          /\ trace[a].layer = trace[b].layer =>
                /\ Rank(trace[a].op) <= Rank(trace[b].op)
                /\ Rank(trace[a].op) = Rank(trace[b].op) => trace[a].op \in EntryCallbacks
    /\ \A b \in DOMAIN trace : \A l \in 1..(trace[b].layer - 1) :
          \E a \in 1..(b - 1) : trace[a] = [op |-> "post_apply", layer |-> l, ok |-> TRUE]
    /\ \A f \in Fetches :
          trace[f].digest = image.manifest.layers[trace[f].layer].digest
    /\ \A b \in EntryCalls :
          /\ Cardinality({a \in OfLayer(EntryCalls, trace[b].layer) : a < b})
                = trace[b].entry - 1
          /\ \E a \in 1..(b - 1) : trace[a] = [op |-> "pre_apply", layer |-> trace[b].layer,
                                                ok |-> TRUE]
          /\ OfLayer(EntryCalls, trace[b].layer) \subseteq
                (CHOOSE p \in OfLayer(SinkCalls, trace[b].layer) : trace[p].op = "pre_apply") + 1
                    .. Len(trace)
    /\ \A p \in SinkCalls :
          (trace[p].op = "post_apply" /\ trace[p].layer = trace[Len(trace)].layer) =>
              /\ Cardinality(OfLayer(EntryCalls, trace[p].layer)) = Len(tar.entries)
              /\ \A a \in OfLayer(EntryCalls, trace[p].layer) :
                    trace[a].op = apply_change(tar.entries[trace[a].entry].path).op

\* Two layers of MaxTarEntries entries each were applied to the end.
C19_Witness ==
    /\ upc = "done" /\ uresult.value.ok
    /\ Len(layers(image.manifest)) = 2
    /\ image.manifest.layers[1].digest # image.manifest.layers[2].digest
    /\ Cardinality(OfLayer(EntryCalls, 1)) = MaxTarEntries
    /\ Cardinality(OfLayer(EntryCalls, 2)) = MaxTarEntries
    /\ tar.entries[1].path # tar.entries[2].path
    /\ trace[Len(trace)] = [op |-> "post_apply", layer |-> 2, ok |-> TRUE]

\* C20 as stated: a layer's pre_apply hook has been called before the
\* layer's blob is requested.
C20_PreApplyBeforeFetch ==
    \A f \in Fetches :
        \E p \in 1..(f - 1) : trace[p].op = "pre_apply" /\ trace[p].layer = trace[f].layer

\* C20 as the code has it: a layer's blob is requested first, and only when
\* the request succeeded is the layer's pre_apply called, then its entries,
\* then its post_apply; every fetch is one blob request.
C20_Amended ==
    /\ \A a, b \in DOMAIN trace :
          (a < b /\ trace[a].layer = trace[b].layer) => Rank(trace[a].op) <= Rank(trace[b].op)
    /\ \A p \in SinkCalls :
          \E f \in 1..(p - 1) :
              /\ trace[f].op = "get_layer" /\ trace[f].ok
              /\ trace[f].layer = trace[p].layer
    /\ \A f \in Fetches : Cardinality(OfLayer(Fetches, trace[f].layer)) = 1
    /\ Len(requests) = 1 + Cardinality(Fetches)
    /\ \A f \in Fetches :
          LET n == 1 + Cardinality({g \in Fetches : g <= f})
          IN  requests[n].kind = "blob" /\ requests[n].target = trace[f].digest

\* The second layer's blob request failed after the first layer was
\* applied: the sink has seen nothing of the second layer.
C20_Witness ==
    /\ upc = "done" /\ uresult.value = UnpackErr("RegistryError")
    /\ Len(trace) >= 3
    /\ trace[1].op = "get_layer" /\ trace[2].op = "pre_apply"
    /\ trace[Len(trace)].op = "get_layer" /\ trace[Len(trace)].layer = 2
    /\ ~trace[Len(trace)].ok
    /\ OfLayer(SinkCalls, 2) = {}
    /\ OfLayer(SinkCalls, 1) # {}

\* ---------------------------------------------------------------------
\* Vocabulary of C21, C23 and C29.  The final component of the path in
\* `arg`, where it has one.
Applied == ret.called /\ ret.fn = "apply_change"

HasFinal == arg.path # <<>> /\ arg.path[Len(arg.path)] # <<"..">>

Final == arg.path[Len(arg.path)]

Before == SubSeq(arg.path, 1, Len(arg.path) - 1)

BeginsWithWh(name) == name # <<>> /\ name[1] = WH

\* C21: apply_change issues one callback per entry: whiteout_folder of the
\* parent when the final component is the opaque marker, otherwise
\* whiteout_file of the stripped path when the final component begins with
\* `.wh.`, otherwise add, also when the path has no final component.
C21_OneCallbackPerEntry ==
    Applied =>
        /\ Len(ret.calls) = 1
        /\ IF HasFinal /\ Final = OPAQUE
           THEN ret.calls[1] = [op |-> "whiteout_folder", path |-> Before]
           ELSE IF HasFinal /\ BeginsWithWh(Final)
           THEN ret.calls[1] = [op |-> "whiteout_file",
                                path |-> Before \o <<SubSeq(Final, 2, Len(Final))>>]
           ELSE ret.calls[1] = [op |-> "add", path |-> arg.path]

\* The opaque marker in a directory is dispatched to whiteout_folder.
C21_Witness ==
    /\ Applied
    /\ arg.path = <<<<"x">>, OPAQUE>>
    /\ ret.calls = <<[op |-> "whiteout_folder", path |-> <<<<"x">>>>]>>

\* ---------------------------------------------------------------------
\* Vocabulary of C22.  unpack has failed while applying a layer: with a
\* sink error, or with an error of the tar reader.
ApplyErrors == {"Sink", "GetEntries", "GetEntry", "GetEntryPath"}

FailedApplying ==
    /\ uresult.called /\ ~uresult.value.ok /\ uresult.value.err \in ApplyErrors
    /\ ~(uresult.value.err = "Sink" /\ trace[Len(trace)].op = "post_apply")

\* C22: a failure of pre_apply, of reading an entry or of an entry callback
\* ends unpack with that error: the failed call is the last thing unpack
\* did, no later entry of the layer was dispatched, the layer's post_apply
\* was not called, and no later layer was fetched or applied.
C22_FailureStopsUnpack ==
    /\ \A i \in SinkCalls : ~trace[i].ok =>
          /\ i = Len(trace)
          /\ upc = "done"
          /\ uresult.value = UnpackErr("Sink")
    /\ FailedApplying =>
          /\ upc = "done"
          /\ \A i \in DOMAIN trace : trace[i].layer <= layer_i
          /\ \A i \in OfLayer(SinkCalls, layer_i) : trace[i].op # "post_apply"
          /\ Cardinality(Fetches) = layer_i
          /\ Len(requests) = 1 + layer_i
          /\ \A i \in OfLayer(EntryCalls, layer_i) : trace[i].entry <= entry_i
          /\ uresult.value.err = "Sink" => ~trace[Len(trace)].ok
          /\ uresult.value.err = "GetEntries" => OfLayer(EntryCalls, layer_i) = {}
          /\ uresult.value.err \in {"GetEntry", "GetEntryPath"} =>
                /\ Cardinality(OfLayer(EntryCalls, layer_i)) = entry_i - 1
                /\ \A i \in DOMAIN trace : trace[i].ok

\* The first of two entries of the first of two layers failed in the sink.
C22_Witness ==
    /\ FailedApplying /\ uresult.value.err = "Sink"
    /\ Len(layers(image.manifest)) = 2 /\ layer_i = 1
    /\ Len(tar.entries) = 2 /\ entry_i = 1
    /\ trace[Len(trace)].op \in EntryCallbacks
    /\ ~trace[Len(trace)].ok
    /\ Len(trace) = 3

\* ---------------------------------------------------------------------
\* Vocabulary of C23.
AskedWhiteoutPath == ret.called /\ ret.fn = "get_whiteout_path"

\* C23: get_whiteout_path returns a value exactly for a path with a final
\* component that begins with `.wh.`, and the value is the path with that
\* prefix taken once off the final component; every other path, a path
\* without final component included, gives None.
C23_WhiteoutPath ==
    AskedWhiteoutPath =>
        /\ ret.value.some <=> (HasFinal /\ BeginsWithWh(Final))
        /\ ret.value.some =>
              /\ Len(ret.value.value) = Len(arg.path)
              /\ SubSeq(ret.value.value, 1, Len(arg.path) - 1) = Before
              /\ <<WH>> \o ret.value.value[Len(arg.path)] = Final

\* `x/.wh..wh.x` gives `x/.wh.x`: the prefix is removed once.
C23_Witness ==
    /\ AskedWhiteoutPath
    /\ arg.path = <<<<"x">>, <<WH, WH, "x">>>>
    /\ ret.value = SomePath(<<<<"x">>, <<WH, "x">>>>)

\* ---------------------------------------------------------------------
\* Vocabulary of C29.  The components of a path as Path::components gives
\* them: a separator at the end, written as an empty component, adds none.
PathComponents(path) == SelectSeq(path, LAMBDA c : c # <<>>)

\* C29: a path given to whiteout_file lies in the directory of the entry
\* that caused it and has a final component, which is not empty and is the
\* entry's file name without its leading `.wh.`.
C29_WhiteoutFileInEntryDirectory ==
    (Applied /\ ret.calls[1].op = "whiteout_file") =>
        LET given == PathComponents(ret.calls[1].path)
        IN  /\ given # <<>>
            /\ given[Len(given)] # <<"..">>
            /\ SubSeq(given, 1, Len(given) - 1) = Before
            /\ <<WH>> \o given[Len(given)] = Final

\* ---------------------------------------------------------------------
\* Vocabulary of C24, C25 and C28.
Checked == ret.called /\ ret.fn = "check_path_in"

Canonicalized == ret.called /\ ret.fn = "partially_canonicalize"

IsPrefix(short, long) ==
    Len(short) <= Len(long) /\ SubSeq(long, 1, Len(short)) = short

WithRoot(path) == IF path.abs THEN <<"/">> \o path.comps ELSE path.comps

\* C24: check_path_in answers true exactly when the components of the
\* canonicalized and resolved base are a prefix of those of the
\* canonicalized and resolved candidate, component by component; a path
\* contains itself; no `..` is left in the candidate that is compared.
C24_TrueIffComponentPrefix ==
    (Checked /\ ret.value.ok) =>
        LET base == partially_canonicalize(arg.fs, arg.base, arg.empty)
            candidate == partially_canonicalize(arg.fs, arg.path, arg.empty)
        IN  /\ base.ok /\ candidate.ok
            /\ ret.value.value <=> IsPrefix(WithRoot(base), WithRoot(candidate))
            /\ arg.path = arg.base => ret.value.value
            /\ \A i \in 1..Len(candidate.comps) : candidate.comps[i] # ".."

\* /rx/../rx does not lie in /r although its text begins with /r.
C24_Witness ==
    /\ Checked /\ ret.value.ok
    /\ arg.base = [abs |-> TRUE, comps |-> <<"r">>]
    /\ arg.path = [abs |-> TRUE, comps |-> <<"rx", "..", "rx">>]
    /\ ~ret.value.value

\* The probes of the ancestors of the path in `arg`, by number of
\* components kept.
ProbeOf(k) == canonicalize(arg.fs, Ancestor(arg.path, k))

Resolvable == {k \in 0..Len(arg.path.comps) : ProbeOf(k).ok}

\* The longest ancestor whose probe did not say not-found failed otherwise.
OtherError(k) ==
    /\ ~ProbeOf(k).ok /\ ProbeOf(k).kind # "NotFound"
    /\ \A j \in (k + 1)..Len(arg.path.comps) : ProbeOf(j) = [ok |-> FALSE, kind |-> "NotFound"]

\* C25: what partially_canonicalize hands to the semantic resolution is the
\* resolution of the longest resolvable ancestor followed by the remaining
\* components; no component of the input is dropped, also when no ancestor
\* resolves; a probe that fails otherwise than with not-found fails the
\* operation with CanonicalizePath of that ancestor.
C25_NoComponentDropped ==
    Canonicalized =>
        /\ \A k \in 0..Len(arg.path.comps) :
              OtherError(k) => ret.buf = [ok |-> FALSE, err |-> "CanonicalizePath", base |-> Ancestor(arg.path, k)]
        /\ ret.buf.ok =>
              /\ \A k \in Resolvable :
                    (\A j \in Resolvable : j <= k) =>
                        ret.buf.comps = ProbeOf(k).path
                                        \o SubSeq(arg.path.comps, k + 1, Len(arg.path.comps))
              /\ Resolvable = {} =>
                    /\ Len(ret.buf.comps) >= Len(arg.path.comps)
                    /\ SubSeq(ret.buf.comps,
                              Len(ret.buf.comps) - Len(arg.path.comps) + 1,
                              Len(ret.buf.comps)) = arg.path.comps

\* The location the operating system reaches when it follows `comps` from
\* the directory `dir`: every symbolic link is followed, a dangling one to
\* the place it names; names that do not exist yet stand for themselves.
RECURSIVE Reach(_, _, _)
Reach(fs, dir, comps) ==
    IF comps = <<>> THEN [ok |-> TRUE, path |-> dir]
    ELSE IF Head(comps) = ".."
         THEN Reach(fs, IF dir = <<>> THEN <<>> ELSE SubSeq(dir, 1, Len(dir) - 1), Tail(comps))
    ELSE IF Lookup(fs, dir, Head(comps)) = "dir"
         THEN Reach(fs, dir \o <<Head(comps)>>, Tail(comps))
    ELSE IF Lookup(fs, dir, Head(comps)) = "link"
         THEN Reach(fs, <<>>, LinkTarget(fs) \o Tail(comps))
    ELSE IF Lookup(fs, dir, Head(comps)) = "denied" THEN [ok |-> FALSE, kind |-> "PermissionDenied"]
    ELSE IF \E i \in 1..Len(comps) : comps[i] = ".." THEN [ok |-> FALSE, kind |-> "NotFound"]
    ELSE [ok |-> TRUE, path |-> dir \o comps]

Reached(path) == Reach(arg.fs, IF path.abs THEN <<>> ELSE Cwd, path.comps)

\* C28: whenever check_path_in answers true, the location the operating
\* system reaches by following the candidate, dangling symbolic links
\* included, lies under the location of the base.
C28_TrueMeansUnderBase ==
    (Checked /\ ret.value.ok /\ ret.value.value
        /\ Reached(arg.path).ok /\ Reached(arg.base).ok)
        => IsPrefix(Reached(arg.base).path, Reached(arg.path).path)

\* ---------------------------------------------------------------------
\* Vocabulary of C26.
Did(fn) == ret.called /\ ret.fn = fn

RecognisedGoOs == {GoOs_fmt(v) : v \in GoOsValues}

RecognisedGoArch == {GoArch_fmt(v) : v \in GoArchValues}

\* C26: parsing what Display wrote gives the value back; a string parses
\* exactly when it is a recognised name, and Display of the result is that
\* string; every other string fails with InvalidGoOs or InvalidGoArch
\* carrying the string.
C26_GoRoundTrip ==
    /\ Did("GoOs::to_string") => GoOs_from_str(ret.value) = [ok |-> TRUE, value |-> arg.os]
    /\ Did("GoArch::to_string") => GoArch_from_str(ret.value) = [ok |-> TRUE, value |-> arg.arch]
    /\ Did("GoOs::from_str") =>
          /\ ret.value.ok <=> arg.s \in RecognisedGoOs
          /\ ret.value.ok => ret.value.value \in GoOsValues /\ GoOs_fmt(ret.value.value) = arg.s
          /\ ~ret.value.ok => ret.value = [ok |-> FALSE, err |-> "InvalidGoOs", s |-> arg.s]
    /\ Did("GoArch::from_str") =>
          /\ ret.value.ok <=> arg.s \in RecognisedGoArch
          /\ ret.value.ok => ret.value.value \in GoArchValues /\ GoArch_fmt(ret.value.value) = arg.s
          /\ ~ret.value.ok => ret.value = [ok |-> FALSE, err |-> "InvalidGoArch", s |-> arg.s]

\* FreeBSD was written as freebsd, which parses back to FreeBSD.
C26_Witness ==
    /\ Did("GoOs::to_string") /\ arg.os = "FreeBSD" /\ ret.value = "freebsd"
    /\ GoOs_from_str(ret.value) = [ok |-> TRUE, value |-> "FreeBSD"]

\* ---------------------------------------------------------------------
\* Vocabulary of C27.
Selected == ret.called /\ ret.fn = "select_manifest"

Matching(i) == arg.manifest_list.manifests[i].platform_matches

\* C27: the platform selector returns the first entry, in list order, whose
\* platform matches the host, and none when no entry matches; the test
\* selector returns the first entry, and none for an empty list; a second
\* call on the same list returns the same entry, and the list is unchanged.
C27_FirstMatchingEntry ==
    Selected =>
        /\ \A c \in 1..Len(ret.values) :
              LET i == ret.values[c]
                  n == Len(arg.manifest_list.manifests)
              IN  /\ i \in 0..n
                  /\ arg.IS = "ImagePlatformSelector" =>
                        /\ i # 0 => Matching(i) /\ \A j \in 1..(i - 1) : ~Matching(j)
                        /\ i = 0 => \A j \in 1..n : ~Matching(j)
                  /\ arg.IS = "TestImageSelector" => i = (IF n = 0 THEN 0 ELSE 1)
        /\ \A c, d \in 1..Len(ret.values) : ret.values[c] = ret.values[d]
        /\ ret.manifest_list = arg.manifest_list

\* Two entries match the host and the platform selector was asked twice.
C27_Witness ==
    /\ Selected /\ arg.IS = "ImagePlatformSelector"
    /\ Len(arg.manifest_list.manifests) = 2
    /\ Matching(1) /\ Matching(2)
    /\ ret.values = <<1, 1>>

\* ---------------------------------------------------------------------
\* Vocabulary of C30: the requests of the current call stay within what the
\* Bearer challenges of the first answer's header allow.
WithinBounds ==
    InCall =>
        /\ Cardinality(RealmIdx) <= Len(BearerOf(FirstHeader))
        /\ Len(Granted) <= Len(BearerOf(FirstHeader))
        /\ Cardinality(ResourceIdx) <= 1 + Len(Granted)

Returned_get == pc = "done" => result # NoResult

\* C30: a call of get always ends, with a response or an error; during the
\* call at most one token request is sent per Bearer challenge of the
\* header, and at most 1 + k requests go to the resource URL, k being the
\* number of credentials obtained, itself at most the number of Bearer
\* challenges.
C30_TerminatesWithinBounds ==
    /\ [](WithinBounds /\ Returned_get)
    /\ (pc # "idle") ~> (pc = "done")

\* Two Bearer challenges, two tokens obtained and both rejected: two token
\* requests, three requests to the resource, then CouldNotAuthenticate.
C30_Witness ==
    /\ pc = "done" /\ Challenged
    /\ Len(BearerOf(FirstHeader)) = 2
    /\ Cardinality(RealmIdx) = 2
    /\ Len(Granted) = 2
    /\ Cardinality(ResourceIdx) = 3
    /\ result = CouldNotAuthenticate

====
